---------------------------- MODULE Spec2Model ----------------------------
(***************************************************************************)
(* Layer-0 deception front-end (Apate / Mirage), rust-protocol crate.      *)
(*                                                                         *)
(* Part I  : CircuitBreaker   (src/rust-protocol/src/circuit_breaker.rs)   *)
(* Part II : VerdictCache     (src/rust-protocol/src/reducers.rs)          *)
(*                                                                         *)
(* Every atomic load, store and read-modify-write of the code, and every   *)
(* critical section under a mutex, is one step of the calling thread, so   *)
(* that the interleavings of concurrent callers are behaviours of the      *)
(* model.  A call returns with its last step.                              *)
(***************************************************************************)
EXTENDS Integers, Naturals, Sequences, FiniteSets, TLC

(***************************************************************************)
(* Program constants.  The breaker is checked with the values of the       *)
(* cfg(test) build, which the crate's own tests run with; the release      *)
(* build sets 10, 30 000 and 5.  The code uses the values only in the      *)
(* three comparisons IsFailure, TimeoutExpired and ThresholdReached.       *)
(***************************************************************************)
FAILURE_THRESHOLD == 3

RESET_TIMEOUT_MS == 500

LATENCY_THRESHOLD_MS == 1

(***************************************************************************)
(* Bounds of the model.                                                    *)
(***************************************************************************)
\* number of worker threads that call into the shared objects
NumThreads == 2

\* number of threshold-exceeding results the callers report in one run
MaxFailures == 4

\* number of distinct cache keys the callers use
MaxKeys == 2

\* largest max_size a VerdictCache is constructed with
MaxSize == 2

\* largest ttl_ms a VerdictCache is constructed with
MaxTtl == 2

\* milliseconds the clock advances while the cache is exercised
MaxClock == 2

\* number of calls made on one AdaptiveCircuitBreaker in one run
MaxCalls == 4

\* largest latency_ms passed to record_latency
MaxLatency == 10

\* number of bytes that follow a prefix in a classified payload
MaxTail == 2

\* largest window_size a RateStats is built with
MaxWindow == 21

\* number of record calls made on one RateStats
MaxRecords == 22

\* number of times the clock advances between calls on a RateStats
MaxTicks == 2

\* largest window_size of a source that records at a fixed interval
MaxPacedWindow == 5

\* number of intervals that pass for such a source
MaxPaces == 5

\* number of record calls threads make on one shared RateStats
MaxRingCalls == 4

\* number of calls threads make on one RateTracker
MaxTrackerCalls == 3

\* milliseconds that pass while the tracker is exercised
MaxTrackerTicks == 1

\* number of add_tag and add_score calls made on one Layer0Output
MaxOutputOps == 4

\* number of indices past the end of the pattern list that
\* boring_noise_response is called with
MaxPastEnd == 3

\* the detect_threats calls of a behaviour
MaxDetectCalls == 5

\* the bits of a ScannerNoiseFilter's BloomFilter
MaxBloomBits == 5

\* the mark_noise and is_probable_noise calls of a behaviour
MaxFilterCalls == 4

\* the handle_client tasks of a behaviour
MaxClients == 2

\* the get_stats calls of a behaviour
MaxStatsCalls == 2

Threads == 1..NumThreads

CircuitState == {"Closed", "Open", "HalfOpen"}

\* duration_ms arguments of record_result: both sides of the threshold
DurationInputs == {LATENCY_THRESHOLD_MS, LATENCY_THRESHOLD_MS + 1}

\* SystemTime::now() is milliseconds since the Unix epoch: far larger than
\* the reset timeout when the process starts.
EpochStart == 2 * RESET_TIMEOUT_MS

VARIABLES
    now,                \* wall clock, current_time_ms()
    active,             \* the threads that run in this specification
    state,              \* CircuitBreaker.state
    failure_count,      \* CircuitBreaker.failure_count
    last_failure_time,  \* CircuitBreaker.last_failure_time
    pc,                 \* per thread: position inside check_allow / record_result
    st,                 \* per thread: local `state` loaded at entry
    dur,                \* per thread: argument duration_ms of record_result
    nowL,               \* per thread: local `now` of check_allow
    ret,                \* value returned by the check_allow that returned last
    failBudget,         \* threshold-exceeding results the callers may still report
    failsSinceClosed,   \* history: failures reported since state last became Closed
    tripTime,           \* history: clock value when state was last set to Open
    seenTrip,           \* history, per thread: tripTime when check_allow loaded state
    wins,               \* history: successful Open->HalfOpen swaps since the last trip
    cache,              \* VerdictCache.cache: key -> (verdict, timestamp)
    max_size,           \* VerdictCache.max_size
    ttl_ms,             \* VerdictCache.ttl_ms
    cpc,                \* per thread: position inside get / set
    ckey,               \* per thread: argument key
    cverdict,           \* per thread: argument verdict of set
    cnow,               \* per thread: local `now` of get / set
    cret,               \* value returned by the get executed last, or Panicked
    poisoned,           \* the mutex is poisoned: a thread panicked holding it
    lastSet,            \* history: the set executed last
    afterSet,           \* history, per thread: its get was called less than
                        \* ttl_ms after the last set, which was a set of its
                        \* key, and no set has been executed since
    lastSetRead,        \* history: what the gets have done with the entry of
                        \* the last set: "unread", "read" once a get has
                        \* returned it, "expired" once a get later found it
                        \* ttl_ms old or older
    r_proto,            \* route_payload: argument _proto
    r_score,            \* route_payload: argument suspicion_score
    r_tags,             \* route_payload: argument tags, a u32 bit set
    routed,             \* route_payload: the profile returned, or NotRouted
    latency_buckets,    \* AdaptiveCircuitBreaker: [AtomicUsize; 10]
    degradation_level,  \* AdaptiveCircuitBreaker: AtomicUsize, 0..4
    profile,            \* AdaptiveCircuitBreaker: ProfileFlags
    acb_state,          \* AdaptiveCircuitBreaker: field state
    acb_failure_count,  \* AdaptiveCircuitBreaker: field failure_count
    acb_last_failure_time, \* AdaptiveCircuitBreaker: field last_failure_time
    apc,                \* per thread: its position in an adaptive-breaker call
    a_loc,              \* per thread: the locals total, threshold and current
                        \* of its call, and the function that called
                        \* adaptive_threshold
    a_last,             \* history: the adaptive-breaker call that returned
                        \* last, its argument (for degrade and try_recover
                        \* the level they loaded) and its answer
    recorded,           \* history: the number of record_latency calls made
    callsLeft,          \* the adaptive-breaker calls that may still start
    o_in,               \* orchestrator: what the stages report for the payload
    o_pc,               \* orchestrator: the step it is at
    output,             \* orchestrator: the Layer0Output being built, which
                        \* is published when o_pc is "done"
    o_skip,             \* orchestrator: the answer of should_skip_optional
    o_verdict,          \* orchestrator: the verdict stored in the cache
    cl_data,            \* classify_protocol_fast: argument data
    cl_proto,           \* classify_protocol_fast: the Protocol returned, or
                        \* NotClassified
    requests,           \* RateStats: the ring of timestamps, 0 = never written
    write_idx,          \* RateStats: the number of record calls so far
    window_size,        \* RateStats: the number of slots
    rs_state,           \* the RateState the last rate_state call returned, or
                        \* NotAsked once the buffer or the clock has moved on
    rs_ticks,           \* the clock steps that may still be taken
    interval,           \* paced source: the milliseconds between two records
    paces,              \* paced source: the intervals that may still pass
    rps_last,           \* the value the last requests_per_second call
                        \* returned, or NoRps once the buffer or the clock
                        \* has moved on
    g_pc,               \* per thread: its position inside RateStats::record
    g_now,              \* per thread: local `now` of record
    g_idx,              \* per thread: local `idx` of record
    g_old,              \* history, per thread: the write_idx its fetch_add
                        \* returned
    g_log,              \* history: the timestamps stored, in the order of
                        \* the stores
    g_calls,            \* the record calls that may still start
    g_overlap,          \* history: some record call started while another
                        \* was running
    tk_stats,           \* RateTracker.stats: ip -> the RateStats it shares
    tk_objs,            \* the RateStats objects created so far, by identity
    tk_window,          \* RateTracker.window_size
    tk_age,             \* the max_age_ms the cleanup passes are called with
    tk_poisoned,        \* the tracker's mutex is poisoned
    tk_pc,              \* per thread: its position inside record or
                        \* cleanup_inactive
    tk_ip,              \* per thread: argument ip of record
    tk_obj,             \* per thread: the Arc<RateStats> get_stats gave it
    tk_now,             \* per thread: local `now` of record or
                        \* cleanup_inactive
    tk_idx,             \* per thread: local `idx` of record
    tk_last,            \* history, per ip: the object and the timestamp of
                        \* the record(ip) that returned last
    tk_ret,             \* the object the last get_stats returned, its ip,
                        \* and the object that a returned record(ip) has
                        \* written into less than max_age_ms before
    tk_calls,           \* the tracker calls that may still start
    tk_ticks,           \* the milliseconds that may still pass
    lo_out,             \* a Layer0Output that add_tag and add_score act on
    lo_sum,             \* history: the sum of the points added to it
    lo_added,           \* history: the tag arguments added to it
    lo_ops,             \* the add_tag and add_score calls that may still
                        \* be made on it
    nd_payload,         \* check_hint: argument payload
    nd_idx,             \* boring_noise_response: an argument pattern_idx
    nd_hint,            \* check_hint: the index returned, NoHint for None,
                        \* or NotChecked
    nd_reply,           \* boring_noise_response(nd_hint), or NoReply
    nd_idx_reply,       \* boring_noise_response(nd_idx), or NoReply
    d_pc,               \* detect_threats: the line the call is at
    d_in,               \* detect_threats: the length of argument payload,
                        \* the answer of check_hint for it, and what the
                        \* analysis of it ends with
    d_before,           \* history: the breaker's fields when the call began
    d_duration,         \* detect_threats: local `duration`
    d_result,           \* what the last call returned to its caller, or
                        \* NoResult while a call is running
    d_calls,            \* the detect_threats calls that may still start
    d_done,             \* history: the analyses the current call has run, the
                        \* record_result calls it has made, and the duration
                        \* it passed to the last of them
    bf_filters,         \* two ScannerNoiseFilters, built with HOME and with
                        \* ENTERPRISE, that receive the same calls
    bf_marked,          \* history: the arguments of the mark_noise calls
    bf_last,            \* the arguments of the last is_probable_noise call
                        \* and the answer of either filter, or NotProbed
                        \* once mark_noise has been called since
    bf_calls,           \* the filter calls that may still be made
    connections,        \* ServerStats: the Vec<Connection>, as the ids
    total_connections,  \* ServerStats: the u64 counter
    sv_holder,          \* the task inside get_stats that holds the mutex of
                        \* connections, or NoTask
    sv_pc,              \* per client task: position in handle_client
    sv_id,              \* per client task: its connection_id, or NoId
    sv_stats,           \* the snapshot get_stats returned last, or NoSnapshot
    sv_calls            \* the get_stats calls that may still be made

envVars == <<now, active>>

cbVars == <<state, failure_count, last_failure_time, pc, st, dur, nowL, ret,
            failBudget, failsSinceClosed, tripTime, seenTrip, wins>>

vcVars == <<cache, max_size, ttl_ms, cpc, ckey, cverdict, cnow, cret, lastSet,
            afterSet, lastSetRead, poisoned>>

rtVars == <<r_proto, r_score, r_tags, routed>>

acbVars ==
    <<latency_buckets, degradation_level, profile, acb_state,
      acb_failure_count, acb_last_failure_time, apc, a_loc, a_last,
      recorded, callsLeft>>

orVars == <<o_in, o_pc, output, o_skip, o_verdict>>

clVars == <<cl_data, cl_proto>>

rsVars == <<requests, write_idx, window_size, rs_state, rs_ticks>>

paVars == <<interval, paces, rps_last>>

rgVars == <<g_pc, g_now, g_idx, g_old, g_log, g_calls, g_overlap>>

tkVars ==
    <<tk_stats, tk_objs, tk_window, tk_age, tk_poisoned, tk_pc, tk_ip,
      tk_obj, tk_now, tk_idx, tk_last, tk_ret, tk_calls, tk_ticks>>

loVars == <<lo_out, lo_sum, lo_added, lo_ops>>

ndVars == <<nd_payload, nd_idx, nd_hint, nd_reply, nd_idx_reply>>

dtVars == <<d_pc, d_in, d_before, d_duration, d_result, d_calls, d_done>>

bfVars == <<bf_filters, bf_marked, bf_last, bf_calls>>

svVars == <<connections, total_connections, sv_holder, sv_pc, sv_id, sv_stats,
            sv_calls>>

vars ==
    <<envVars, cbVars, vcVars, rtVars, acbVars, orVars, clVars,
      rsVars, paVars, rgVars, tkVars, loVars,
      ndVars, dtVars, bfVars, svVars>>

Min(a, b) == IF a <= b THEN a ELSE b

\* the clock and the threads of a run
InitEnv(runs) ==
    /\ now = EpochStart
    /\ active = runs

(***************************************************************************)
(* Part I.  CircuitBreaker                                                 *)
(***************************************************************************)

\* a failure test that counts the boundary duration as a failure
IsFailureInclusive(duration_ms) == duration_ms >= LATENCY_THRESHOLD_MS

\* record_result line 90: the failure test
IsFailure(duration_ms) == duration_ms > LATENCY_THRESHOLD_MS

\* a timeout test with its operands exchanged
TimeoutExpiredSwapped(n, last_fail) == last_fail >= n + RESET_TIMEOUT_MS

\* check_allow line 64
TimeoutExpired(n, last_fail) == n >= last_fail + RESET_TIMEOUT_MS

\* handle_failure line 101
ThresholdReached(c) == c >= FAILURE_THRESHOLD

\* a failure dispatch that treats HalfOpen like Open: it only refreshes the time
handle_failure_refresh(s) ==
    CASE s = "Closed"   -> "hf_add"
      [] s = "HalfOpen" -> "hf_open"
      [] s = "Open"     -> "hf_open"

\* a failure dispatch that counts a failure found in Open like one found in
\* Closed
handle_failure_counting(s) ==
    CASE s = "Closed"   -> "hf_add"
      [] s = "HalfOpen" -> "trip_state"
      [] s = "Open"     -> "hf_add"

\* handle_failure lines 98-113: the arm taken for the state loaded at entry
handle_failure(s) ==
    CASE s = "Closed"   -> "hf_add"
      [] s = "HalfOpen" -> "trip_state"
      [] s = "Open"     -> "hf_open"

\* handle_success lines 117-131: the arm taken for the state loaded at entry
handle_success(s) ==
    CASE s = "HalfOpen" -> "reset_state"
      [] s = "Closed"   -> "hs_store"
      [] s = "Open"     -> "idle"

\* the positions of a thread inside record_result and inside check_allow
RecordPcs == {"hf_add", "hf_open", "hs_store", "trip_state",
              "trip_time", "reset_state", "reset_count"}

CheckPcs == {"ca_now", "ca_last", "ca_cas"}

\* CircuitBreaker::new
InitBreaker ==
    /\ state = "Closed"
    /\ failure_count = 0
    /\ last_failure_time = 0
    /\ pc = [t \in Threads |-> "idle"]
    /\ st = [t \in Threads |-> "Closed"]
    /\ dur = [t \in Threads |-> 0]
    /\ nowL = [t \in Threads |-> 0]
    /\ ret = FALSE
    /\ failBudget = MaxFailures
    /\ failsSinceClosed = 0
    /\ tripTime = 0
    /\ seenTrip = [t \in Threads |-> 0]
    /\ wins = 0

\* the call of thread t returns: its locals go out of scope
Return(t) ==
    /\ pc' = [pc EXCEPT ![t] = "idle"]
    /\ st' = [st EXCEPT ![t] = "Closed"]
    /\ dur' = [dur EXCEPT ![t] = 0]
    /\ nowL' = [nowL EXCEPT ![t] = 0]
    /\ seenTrip' = [seenTrip EXCEPT ![t] = 0]

\* thread t moves on inside its call
Goto(t, label) ==
    /\ pc' = [pc EXCEPT ![t] = label]
    /\ UNCHANGED <<st, dur, nowL, seenTrip>>

\* current_time_ms() advancing.  The breaker observes the clock only through
\* the comparison of line 64 and the stores of lines 111 and 136, so the clock
\* moves from an instant inside the current reset window to the instant at
\* which the window ends, where the comparison changes.
Tick ==
    /\ now < last_failure_time + RESET_TIMEOUT_MS
    /\ now' = last_failure_time + RESET_TIMEOUT_MS
    /\ UNCHANGED <<active, state, failure_count, last_failure_time, pc, st,
                   dur, nowL, ret, failBudget, failsSinceClosed, tripTime,
                   seenTrip, wins, vcVars, rtVars, acbVars, orVars, clVars,
                   rsVars, paVars, rgVars, tkVars, loVars, ndVars, dtVars,
                   bfVars, svVars>>

\* check_allow lines 55-58 and 77-82: load state and match on it; Closed and
\* HalfOpen allow the call at once
CallCheckAllow(t) ==
    /\ t \in active
    /\ pc[t] = "idle"
    /\ IF state = "Open"
          THEN /\ pc' = [pc EXCEPT ![t] = "ca_now"]
               /\ st' = [st EXCEPT ![t] = state]
               /\ seenTrip' = [seenTrip EXCEPT ![t] = tripTime]
               /\ ret' = ret
          ELSE /\ ret' = TRUE
               /\ UNCHANGED <<pc, st, seenTrip>>
    /\ UNCHANGED <<envVars, state, failure_count, last_failure_time, dur,
                   nowL, failBudget, failsSinceClosed, tripTime, wins,
                   vcVars, rtVars, acbVars, orVars, clVars, rsVars, paVars,
                   rgVars, tkVars, loVars, ndVars, dtVars, bfVars, svVars>>

\* check_allow line 61: let now = current_time_ms()
CheckAllowNow(t) ==
    /\ t \in active
    /\ pc[t] = "ca_now"
    /\ pc' = [pc EXCEPT ![t] = "ca_last"]
    /\ nowL' = [nowL EXCEPT ![t] = now]
    /\ UNCHANGED <<envVars, state, failure_count, last_failure_time, st, dur,
                   ret, failBudget, failsSinceClosed, tripTime, seenTrip,
                   wins, vcVars, rtVars, acbVars, orVars, clVars, rsVars,
                   paVars, rgVars, tkVars, loVars, ndVars, dtVars, bfVars,
                   svVars>>

\* check_allow lines 62-64 and 73-75: load last_failure_time, test the
\* timeout; not expired returns false
CheckAllowLast(t) ==
    /\ t \in active
    /\ pc[t] = "ca_last"
    /\ IF TimeoutExpired(nowL[t], last_failure_time)
          THEN Goto(t, "ca_cas") /\ ret' = ret
          ELSE Return(t) /\ ret' = FALSE
    /\ UNCHANGED <<envVars, state, failure_count, last_failure_time,
                   failBudget, failsSinceClosed, tripTime, wins, vcVars,
                   rtVars, acbVars, orVars, clVars, rsVars, paVars, rgVars,
                   tkVars, loVars, ndVars, dtVars, bfVars, svVars>>

\* a plain store of HalfOpen in place of the compare_exchange
CheckAllowStore(t) ==
    /\ t \in active
    /\ pc[t] = "ca_cas"
    /\ state' = "HalfOpen"
    /\ ret' = TRUE
    /\ wins' = wins + 1
    /\ Return(t)
    /\ UNCHANGED <<envVars, failure_count, last_failure_time, failBudget,
                   failsSinceClosed, tripTime, vcVars, rtVars, acbVars,
                   orVars, clVars, rsVars, paVars, rgVars, tkVars, loVars,
                   ndVars, dtVars, bfVars, svVars>>

\* check_allow lines 67-72: compare_exchange(Open, HalfOpen).is_ok()
CheckAllowCas(t) ==
    /\ t \in active
    /\ pc[t] = "ca_cas"
    /\ IF state = "Open"
          THEN /\ state' = "HalfOpen"
               /\ ret' = TRUE
               /\ wins' = wins + 1
          ELSE /\ state' = state
               /\ ret' = FALSE
               /\ wins' = wins
    /\ Return(t)
    /\ UNCHANGED <<envVars, failure_count, last_failure_time, failBudget,
                   failsSinceClosed, tripTime, vcVars, rtVars, acbVars,
                   orVars, clVars, rsVars, paVars, rgVars, tkVars, loVars,
                   ndVars, dtVars, bfVars, svVars>>

\* record_result lines 87-94: load state, then handle_failure or handle_success;
\* handle_success lines 127-130: a success found in state Open changes nothing
CallRecordResult(t, duration_ms) ==
    /\ t \in active
    /\ pc[t] = "idle"
    /\ duration_ms > LATENCY_THRESHOLD_MS => failBudget > 0
    /\ failBudget' = IF duration_ms > LATENCY_THRESHOLD_MS
                        THEN failBudget - 1 ELSE failBudget
    /\ failsSinceClosed' = IF duration_ms > LATENCY_THRESHOLD_MS
                              THEN Min(failsSinceClosed + 1, FAILURE_THRESHOLD)
                              ELSE failsSinceClosed
    /\ LET arm == IF IsFailure(duration_ms)
                     THEN handle_failure(state)
                     ELSE handle_success(state)
       IN  IF arm = "idle"
              THEN UNCHANGED <<pc, st, dur>>
              ELSE /\ pc' = [pc EXCEPT ![t] = arm]
                   /\ st' = [st EXCEPT ![t] = state]
                   /\ dur' = [dur EXCEPT ![t] = duration_ms]
    /\ UNCHANGED <<envVars, state, failure_count, last_failure_time, nowL,
                   ret, tripTime, seenTrip, wins, vcVars, rtVars, acbVars,
                   orVars, clVars, rsVars, paVars, rgVars, tkVars, loVars,
                   ndVars, dtVars, bfVars, svVars>>

\* handle_failure lines 100-103: fetch_add(1) + 1, then the threshold test
HandleFailureAdd(t) ==
    /\ t \in active
    /\ pc[t] = "hf_add"
    /\ failure_count' = failure_count + 1
    /\ IF ThresholdReached(failure_count + 1)
          THEN Goto(t, "trip_state")
          ELSE Return(t)
    /\ UNCHANGED <<envVars, state, last_failure_time, ret, failBudget,
                   failsSinceClosed, tripTime, wins, vcVars, rtVars, acbVars,
                   orVars, clVars, rsVars, paVars, rgVars, tkVars, loVars,
                   ndVars, dtVars, bfVars, svVars>>

\* handle_failure line 111: already Open, refresh last_failure_time
HandleFailureOpen(t) ==
    /\ t \in active
    /\ pc[t] = "hf_open"
    /\ last_failure_time' = now
    /\ Return(t)
    /\ UNCHANGED <<envVars, state, failure_count, ret, failBudget,
                   failsSinceClosed, tripTime, wins, vcVars, rtVars, acbVars,
                   orVars, clVars, rsVars, paVars, rgVars, tkVars, loVars,
                   ndVars, dtVars, bfVars, svVars>>

\* handle_success line 125: failure_count.store(0)
HandleSuccessClosed(t) ==
    /\ t \in active
    /\ pc[t] = "hs_store"
    /\ failure_count' = 0
    /\ Return(t)
    /\ UNCHANGED <<envVars, state, last_failure_time, ret, failBudget,
                   failsSinceClosed, tripTime, wins, vcVars, rtVars, acbVars,
                   orVars, clVars, rsVars, paVars, rgVars, tkVars, loVars,
                   ndVars, dtVars, bfVars, svVars>>

\* trip_circuit line 135: state.store(Open)
TripState(t) ==
    /\ t \in active
    /\ pc[t] = "trip_state"
    /\ state' = "Open"
    /\ tripTime' = now
    /\ wins' = 0
    /\ Goto(t, "trip_time")
    /\ UNCHANGED <<envVars, failure_count, last_failure_time, ret,
                   failBudget, failsSinceClosed, vcVars, rtVars, acbVars,
                   orVars, clVars, rsVars, paVars, rgVars, tkVars, loVars,
                   ndVars, dtVars, bfVars, svVars>>

\* trip_circuit line 136: last_failure_time.store(current_time_ms())
TripTime(t) ==
    /\ t \in active
    /\ pc[t] = "trip_time"
    /\ last_failure_time' = now
    /\ Return(t)
    /\ UNCHANGED <<envVars, state, failure_count, ret, failBudget,
                   failsSinceClosed, tripTime, wins, vcVars, rtVars, acbVars,
                   orVars, clVars, rsVars, paVars, rgVars, tkVars, loVars,
                   ndVars, dtVars, bfVars, svVars>>

\* reset_circuit line 140: state.store(Closed)
ResetState(t) ==
    /\ t \in active
    /\ pc[t] = "reset_state"
    /\ state' = "Closed"
    /\ failsSinceClosed' = 0
    /\ Goto(t, "reset_count")
    /\ UNCHANGED <<envVars, failure_count, last_failure_time, ret,
                   failBudget, tripTime, wins, vcVars, rtVars, acbVars,
                   orVars, clVars, rsVars, paVars, rgVars, tkVars, loVars,
                   ndVars, dtVars, bfVars, svVars>>

\* reset_circuit line 141: failure_count.store(0)
ResetCount(t) ==
    /\ t \in active
    /\ pc[t] = "reset_count"
    /\ failure_count' = 0
    /\ Return(t)
    /\ UNCHANGED <<envVars, state, last_failure_time, ret, failBudget,
                   failsSinceClosed, tripTime, wins, vcVars, rtVars, acbVars,
                   orVars, clVars, rsVars, paVars, rgVars, tkVars, loVars,
                   ndVars, dtVars, bfVars, svVars>>

\* the steps that carry a call of thread t, once made, to its return
Continue(t) ==
    \/ CheckAllowNow(t)
    \/ CheckAllowLast(t)
    \/ CheckAllowCas(t)
    \/ HandleFailureAdd(t)
    \/ HandleFailureOpen(t)
    \/ HandleSuccessClosed(t)
    \/ TripState(t)
    \/ TripTime(t)
    \/ ResetState(t)
    \/ ResetCount(t)

NextBreaker ==
    \/ Tick
    \/ \E t \in Threads : CallCheckAllow(t)
    \/ \E t \in Threads : \E d \in DurationInputs : CallRecordResult(t, d)
    \/ \E t \in Threads : Continue(t)

(***************************************************************************)
(* Part II.  VerdictCache                                                  *)
(*                                                                         *)
(* get and set read the clock first (lines 286, 302) and then take the     *)
(* mutex; the body under the mutex is one step.                            *)
(***************************************************************************)

Keys == 1..MaxKeys

Verdict == {"Boring", "NeedsL1", "KnownNoise"}

\* the verdicts the callers store
VerdictInputs == {"Boring", "NeedsL1"}

\* the ttl_ms values a cache is constructed with
TtlInputs == 1..MaxTtl

\* Option<Verdict>::None
None == "None"

\* the call unwound with a panic instead of returning
Panicked == "Panicked"

\* no set has been executed yet
NoSet == [key |-> 0, verdict |-> None, ts |-> 0]

\* HashMap::remove
Remove(c, k) == [x \in (DOMAIN c) \ {k} |-> c[x]]

\* HashMap::insert
Insert(c, k, v, ts) ==
    [x \in (DOMAIN c) \cup {k} |->
        IF x = k THEN [verdict |-> v, ts |-> ts] ELSE c[x]]

\* get line 290: now - timestamp on u64 with now < timestamp.  A build without
\* overflow checks wraps to 2^64 - (timestamp - now); a build with overflow
\* checks panics.  Both outcomes are behaviours of the model.
Underflows(n, ts) == n < ts

\* a freshness test that still passes at ttl_ms
Fresh_at_ttl(n, ts, ttl) == IF n < ts THEN FALSE ELSE n - ts <= ttl

\* get line 290: now - timestamp < self.ttl_ms; a wrapped difference is not
\* below any ttl_ms of the model
Fresh(n, ts, ttl) == IF Underflows(n, ts) THEN FALSE ELSE n - ts < ttl

\* set line 307: min_by_key over the timestamps; among equal timestamps the
\* iteration order of the HashMap decides
OldestKeys(c) == {k \in DOMAIN c : \A x \in DOMAIN c : c[k].ts <= c[x].ts}

\* set line 306
AtCapacity(n, m) == n >= m

\* VerdictCache::new
InitCache(sizes, ttls) ==
    /\ cache = <<>>
    /\ max_size \in sizes
    /\ ttl_ms \in ttls
    /\ cpc = [t \in Threads |-> "idle"]
    /\ ckey = [t \in Threads |-> 0]
    /\ cverdict = [t \in Threads |-> None]
    /\ cnow = [t \in Threads |-> 0]
    /\ cret = None
    /\ lastSet = NoSet
    /\ afterSet = [t \in Threads |-> FALSE]
    /\ lastSetRead = "unread"
    /\ poisoned = FALSE

\* the call of thread t returns: its locals go out of scope
CacheReturn(t) ==
    /\ cpc' = [cpc EXCEPT ![t] = "idle"]
    /\ ckey' = [ckey EXCEPT ![t] = 0]
    /\ cverdict' = [cverdict EXCEPT ![t] = None]
    /\ cnow' = [cnow EXCEPT ![t] = 0]

\* current_time_ms() advancing by one millisecond
TickMs ==
    /\ now < EpochStart + MaxClock
    /\ now' = now + 1
    /\ UNCHANGED <<active, cbVars, cache, max_size, ttl_ms, cpc, ckey,
                   cverdict, cnow, cret, lastSet, afterSet, lastSetRead,
                   poisoned, rtVars, acbVars, orVars, clVars, rsVars, paVars,
                   rgVars, tkVars, loVars, ndVars, dtVars, bfVars, svVars>>

\* get line 286: let now = current_time_ms()
CallGet(t, k) ==
    /\ t \in active
    /\ cpc[t] = "idle"
    /\ cpc' = [cpc EXCEPT ![t] = "get_lock"]
    /\ ckey' = [ckey EXCEPT ![t] = k]
    /\ cnow' = [cnow EXCEPT ![t] = now]
    /\ afterSet' = [afterSet EXCEPT ![t] =
                       /\ lastSet # NoSet
                       /\ lastSet.key = k
                       /\ now - lastSet.ts < ttl_ms]
    /\ UNCHANGED <<envVars, cbVars, cache, max_size, ttl_ms, cverdict, cret,
                   lastSet, lastSetRead, poisoned, rtVars, acbVars, orVars,
                   clVars, rsVars, paVars, rgVars, tkVars, loVars, ndVars,
                   dtVars, bfVars, svVars>>

\* get lines 287-297, under the mutex
GetLocked(t) ==
    /\ t \in active
    /\ cpc[t] = "get_lock"
    /\ ~poisoned
    /\ IF ckey[t] \in DOMAIN cache
          THEN IF Fresh(cnow[t], cache[ckey[t]].ts, ttl_ms)
                  THEN /\ cret' = cache[ckey[t]].verdict
                       /\ cache' = cache
                  ELSE /\ cret' = None
                       /\ cache' = Remove(cache, ckey[t])
          ELSE /\ cret' = None
               /\ cache' = cache
    /\ afterSet' = [afterSet EXCEPT ![t] = FALSE]
    /\ lastSetRead' =
          IF ckey[t] \in DOMAIN cache /\ ckey[t] = lastSet.key
             THEN IF Fresh(cnow[t], lastSet.ts, ttl_ms)
                     THEN "read"
                     ELSE IF lastSetRead = "read"
                                /\ cnow[t] >= lastSet.ts + ttl_ms
                             THEN "expired"
                             ELSE lastSetRead
             ELSE lastSetRead
    /\ CacheReturn(t)
    /\ UNCHANGED <<envVars, cbVars, max_size, ttl_ms, lastSet, poisoned,
                   rtVars, acbVars, orVars, clVars, rsVars, paVars, rgVars,
                   tkVars, loVars, ndVars, dtVars, bfVars, svVars>>

\* get line 290 in a build with overflow checks: the subtraction panics, the
\* guard is dropped while unwinding and the mutex is poisoned
GetPanics(t) ==
    /\ t \in active
    /\ cpc[t] = "get_lock"
    /\ ~poisoned
    /\ ckey[t] \in DOMAIN cache
    /\ Underflows(cnow[t], cache[ckey[t]].ts)
    /\ poisoned' = TRUE
    /\ cret' = Panicked
    /\ afterSet' = [afterSet EXCEPT ![t] = FALSE]
    /\ CacheReturn(t)
    /\ UNCHANGED <<envVars, cbVars, cache, max_size, ttl_ms, lastSet,
                   lastSetRead, rtVars, acbVars, orVars, clVars, rsVars,
                   paVars, rgVars, tkVars, loVars, ndVars, dtVars, bfVars,
                   svVars>>

\* get line 287, set line 303: lock().unwrap() on a poisoned mutex panics
LockPanics(t) ==
    /\ t \in active
    /\ cpc[t] \in {"get_lock", "set_lock"}
    /\ poisoned
    /\ cret' = IF cpc[t] = "get_lock" THEN Panicked ELSE cret
    /\ afterSet' = [afterSet EXCEPT ![t] = FALSE]
    /\ CacheReturn(t)
    /\ UNCHANGED <<envVars, cbVars, cache, max_size, ttl_ms, lastSet,
                   lastSetRead, poisoned, rtVars, acbVars, orVars, clVars,
                   rsVars, paVars, rgVars, tkVars, loVars, ndVars, dtVars,
                   bfVars, svVars>>

\* set line 302: let now = current_time_ms()
CallSet(t, k, v) ==
    /\ t \in active
    /\ cpc[t] = "idle"
    /\ cpc' = [cpc EXCEPT ![t] = "set_lock"]
    /\ ckey' = [ckey EXCEPT ![t] = k]
    /\ cverdict' = [cverdict EXCEPT ![t] = v]
    /\ cnow' = [cnow EXCEPT ![t] = now]
    /\ UNCHANGED <<envVars, cbVars, cache, max_size, ttl_ms, cret, lastSet,
                   afterSet, lastSetRead, poisoned, rtVars, acbVars, orVars,
                   clVars, rsVars, paVars, rgVars, tkVars, loVars, ndVars,
                   dtVars, bfVars, svVars>>

\* set lines 303-312, under the mutex: evict the oldest at capacity, insert
SetLocked(t) ==
    /\ t \in active
    /\ cpc[t] = "set_lock"
    /\ ~poisoned
    /\ IF AtCapacity(Cardinality(DOMAIN cache), max_size) /\ DOMAIN cache # {}
          THEN \E oldest_key \in OldestKeys(cache) :
                  cache' = Insert(Remove(cache, oldest_key),
                                  ckey[t], cverdict[t], cnow[t])
          ELSE cache' = Insert(cache, ckey[t], cverdict[t], cnow[t])
    /\ lastSet' = [key |-> ckey[t], verdict |-> cverdict[t], ts |-> cnow[t]]
    /\ afterSet' = [u \in Threads |-> FALSE]
    /\ lastSetRead' = "unread"
    /\ CacheReturn(t)
    /\ UNCHANGED <<envVars, cbVars, max_size, ttl_ms, cret, poisoned, rtVars,
                   acbVars, orVars, clVars, rsVars, paVars, rgVars, tkVars,
                   loVars, ndVars, dtVars, bfVars, svVars>>

NextCache ==
    \/ TickMs
    \/ \E t \in Threads : \E k \in Keys : CallGet(t, k)
    \/ \E t \in Threads : GetLocked(t)
    \/ \E t \in Threads : GetPanics(t)
    \/ \E t \in Threads : LockPanics(t)
    \/ \E t \in Threads : \E k \in Keys : \E v \in VerdictInputs : CallSet(t, k, v)
    \/ \E t \in Threads : SetLocked(t)

(***************************************************************************)
(* Part III.  Shared types and the 3-lane router                           *)
(*            (src/rust-protocol/src/reducers.rs)                          *)
(***************************************************************************)

\* mod tags: the bits of the u32 tag set
PROBABLE_NOISE == 1

REPEATED_PROBE == 2

EXPLOIT_HINT == 4

BURSTY == 8

ODD_CADENCE == 16

PROTO_UNKNOWN == 32

Protocol == {"SSH", "HTTP", "FTP", "SMTP", "Unknown"}

ResponseProfile == {"FastFake", "SlowFake", "Mirror"}

\* the u8 values of a suspicion score
ScoreInputs == 0..255

\* the tag sets over the six defined bits
TagInputs == 0..63

\* route_payload has not been called
NotRouted == "NotRouted"

\* a & b on unsigned integers
RECURSIVE BitAnd(_, _)
BitAnd(a, b) ==
    IF a = 0 \/ b = 0
       THEN 0
       ELSE (a % 2) * (b % 2) + 2 * BitAnd(a \div 2, b \div 2)

\* a | b on unsigned integers
RECURSIVE BitOr(_, _)
BitOr(a, b) ==
    IF a = 0 THEN b
    ELSE IF b = 0 THEN a
    ELSE (IF a % 2 = 1 \/ b % 2 = 1 THEN 1 ELSE 0)
            + 2 * BitOr(a \div 2, b \div 2)

\* a router whose Lane 2 test looks at PROTO_UNKNOWN only
route_payload_one_tag(_proto, suspicion_score, tags) ==
    IF suspicion_score >= 50 \/ BitAnd(tags, EXPLOIT_HINT) # 0
       THEN "Mirror"
       ELSE IF suspicion_score >= 20 \/ BitAnd(tags, PROTO_UNKNOWN) # 0
               THEN "SlowFake"
               ELSE "FastFake"

\* a router whose Lane 2 starts at a score of 18
route_payload_from_18(_proto, suspicion_score, tags) ==
    IF suspicion_score >= 50 \/ BitAnd(tags, EXPLOIT_HINT) # 0
       THEN "Mirror"
       ELSE IF suspicion_score >= 18
                  \/ BitAnd(tags, BitOr(PROTO_UNKNOWN, ODD_CADENCE)) # 0
               THEN "SlowFake"
               ELSE "FastFake"

\* a router that tests Lane 2 before Lane 3
route_payload_lane_2_first(_proto, suspicion_score, tags) ==
    IF suspicion_score >= 20
          \/ BitAnd(tags, BitOr(PROTO_UNKNOWN, ODD_CADENCE)) # 0
       THEN "SlowFake"
       ELSE IF suspicion_score >= 50 \/ BitAnd(tags, EXPLOIT_HINT) # 0
               THEN "Mirror"
               ELSE "FastFake"

\* route_payload lines 641-658
route_payload(_proto, suspicion_score, tags) ==
    IF suspicion_score >= 50 \/ BitAnd(tags, EXPLOIT_HINT) # 0
       THEN "Mirror"
       ELSE IF suspicion_score >= 20
                  \/ BitAnd(tags, BitOr(PROTO_UNKNOWN, ODD_CADENCE)) # 0
               THEN "SlowFake"
               ELSE "FastFake"

\* the arguments of one call of route_payload
InitRouter(protos, scores, tagsets) ==
    /\ r_proto \in protos
    /\ r_score \in scores
    /\ r_tags \in tagsets
    /\ routed = NotRouted

\* the router is not called
RouterUnused == InitRouter({"Unknown"}, {0}, {0})

\* the call route_payload(r_proto, r_score, r_tags)
Route ==
    /\ routed = NotRouted
    /\ r_score \in ScoreInputs
    /\ routed' = route_payload(r_proto, r_score, r_tags)
    /\ UNCHANGED <<envVars, cbVars, vcVars, r_proto, r_score, r_tags,
                   acbVars, orVars, clVars, rsVars, paVars, rgVars, tkVars,
                   loVars, ndVars, dtVars, bfVars, svVars>>

NextRouter == Route

(***************************************************************************)
(* Part IV.  AdaptiveCircuitBreaker: latency histogram and work shedding   *)
(*           (src/rust-protocol/src/reducers.rs)                           *)
(***************************************************************************)

\* ProfileFlags::HOME
HOME ==
    [drop_enabled |-> FALSE, bloom_drop |-> FALSE, benign_sampling |-> FALSE,
     latency_adaptive_security |-> FALSE]

\* ProfileFlags::ENTERPRISE
ENTERPRISE ==
    [drop_enabled |-> TRUE, bloom_drop |-> TRUE, benign_sampling |-> TRUE,
     latency_adaptive_security |-> TRUE]

\* every value of the struct ProfileFlags, whose fields are public
ProfileFlags ==
    [drop_enabled : BOOLEAN, bloom_drop : BOOLEAN, benign_sampling : BOOLEAN,
     latency_adaptive_security : BOOLEAN]

\* enum DegradationLevel as the usize it is stored as
Normal == 0

L3Only == 1

L2Only == 2

L1Only == 3

StaticOnly == 4

\* the indices of latency_buckets
Buckets == 0..9

\* the latencies passed to record_latency: below, at and above the recovery
\* limit of 3 ms, and beyond the last bucket
LatencyInputs == {0, 2, 3, MaxLatency}

\* the program counters of a thread inside the adaptive breaker
AcbPcs == {"idle", "at_sum", "at_scan", "tr_load", "tr_store", "dg_store"}

\* the locals of a thread outside every call
NoLocals == [caller |-> "none", total |-> 0, threshold |-> 0, current |-> 0]

\* no call has run
NoCall == [op |-> "none", arg |-> 0, skip |-> FALSE, threshold |-> 0]

\* a histogram index that wraps instead of saturating
bucket_idx_wrapped(latency_ms) == latency_ms % 10

\* record_latency lines 569-573: bucket_idx
bucket_idx(latency_ms) == IF latency_ms < 10 THEN latency_ms ELSE 9

\* the sum of buckets 0..idx of a histogram
RECURSIVE cumulative(_, _)
cumulative(buckets, idx) ==
    IF idx = 0
       THEN buckets[0]
       ELSE cumulative(buckets, idx - 1) + buckets[idx]

\* adaptive_threshold lines 579-581: total
total_of(buckets) == cumulative(buckets, 9)

\* adaptive_threshold line 587: (total as f64 * 0.95) as usize.  The product
\* is rounded to the nearest double and then truncated; for the totals used
\* here that is the integer part of 95 * total / 100.
p95_count(total) == (total * 95) \div 100

\* adaptive_threshold lines 588-597: the first index whose cumulative count
\* reaches p95, or 10
RECURSIVE scan(_, _, _)
scan(buckets, p95, idx) ==
    IF idx > 9
       THEN 10
       ELSE IF cumulative(buckets, idx) >= p95
               THEN idx
               ELSE scan(buckets, p95, idx + 1)

\* adaptive_threshold lines 578-598, run without interference
adaptive_threshold(buckets) ==
    IF total_of(buckets) = 0
       THEN 5
       ELSE scan(buckets, p95_count(total_of(buckets)), 0)

\* try_recover line 619
recovers(threshold, current) == threshold < 3 /\ current > 0

\* a work-shedding test that ignores the profile
should_skip_optional_any_profile(flags, level) == level >= 2

\* should_skip_optional lines 625-633
should_skip_optional(flags, level) ==
    IF ~flags.latency_adaptive_security
       THEN FALSE
       ELSE level >= 2

\* AdaptiveCircuitBreaker::new lines 555-565, at a degradation level that
\* earlier degrade calls have left
InitAcb(profiles, levels) ==
    /\ profile \in profiles
    /\ degradation_level \in levels
    /\ latency_buckets = [i \in Buckets |-> 0]
    /\ acb_state = 0
    /\ acb_failure_count = 0
    /\ acb_last_failure_time = 0
    /\ apc = [t \in Threads |-> "idle"]
    /\ a_loc = [t \in Threads |-> NoLocals]
    /\ a_last = NoCall
    /\ recorded = 0
    /\ callsLeft = MaxCalls

\* the adaptive breaker is not called
AcbUnused ==
    /\ InitAcb({HOME}, {Normal})

\* thread t returns from its call, which was op(arg); skip is the answer of
\* should_skip_optional and threshold the answer of adaptive_threshold
AcbReturn(t, op, arg, skip, threshold) ==
    /\ apc' = [apc EXCEPT ![t] = "idle"]
    /\ a_loc' = [a_loc EXCEPT ![t] = NoLocals]
    /\ a_last' = [op |-> op, arg |-> arg, skip |-> skip,
                 threshold |-> threshold]

\* thread t starts a call
AcbCall(t) ==
    /\ t \in active
    /\ apc[t] = "idle"
    /\ callsLeft > 0
    /\ callsLeft' = callsLeft - 1

\* record_latency lines 568-575: one fetch_add on the bucket of the latency
RecordLatency(t) ==
    /\ AcbCall(t)
    /\ \E latency_ms \in LatencyInputs :
           /\ latency_buckets' =
                  [latency_buckets EXCEPT ![bucket_idx(latency_ms)] = @ + 1]
           /\ AcbReturn(t, "record_latency", latency_ms, FALSE, 0)
    /\ recorded' = recorded + 1
    /\ UNCHANGED <<envVars, cbVars, vcVars, rtVars, degradation_level,
                   profile, acb_state, acb_failure_count,
                   acb_last_failure_time, orVars, clVars, rsVars, paVars,
                   rgVars, tkVars, loVars, ndVars, dtVars, bfVars, svVars>>

\* should_skip_optional lines 625-633: the flag, then one load of the level
ShouldSkipOptional(t) ==
    /\ AcbCall(t)
    /\ AcbReturn(t, "should_skip_optional", degradation_level,
                 should_skip_optional(profile, degradation_level), 0)
    /\ UNCHANGED <<envVars, cbVars, vcVars, rtVars, latency_buckets,
                   degradation_level, profile, acb_state, acb_failure_count,
                   acb_last_failure_time, recorded, orVars, clVars, rsVars,
                   paVars, rgVars, tkVars, loVars, ndVars, dtVars, bfVars,
                   svVars>>

\* a call of adaptive_threshold lines 578-598 from outside
CallAdaptiveThreshold(t) ==
    /\ AcbCall(t)
    /\ apc' = [apc EXCEPT ![t] = "at_sum"]
    /\ a_loc' = [a_loc EXCEPT ![t].caller = "adaptive_threshold"]
    /\ UNCHANGED <<envVars, cbVars, vcVars, rtVars, latency_buckets,
                   degradation_level, profile, acb_state, acb_failure_count,
                   acb_last_failure_time, a_last, recorded, orVars, clVars,
                   rsVars, paVars, rgVars, tkVars, loVars, ndVars, dtVars,
                   bfVars, svVars>>

\* try_recover line 615: the call of adaptive_threshold
CallTryRecover(t) ==
    /\ AcbCall(t)
    /\ apc' = [apc EXCEPT ![t] = "at_sum"]
    /\ a_loc' = [a_loc EXCEPT ![t].caller = "try_recover"]
    /\ UNCHANGED <<envVars, cbVars, vcVars, rtVars, latency_buckets,
                   degradation_level, profile, acb_state, acb_failure_count,
                   acb_last_failure_time, a_last, recorded, orVars, clVars,
                   rsVars, paVars, rgVars, tkVars, loVars, ndVars, dtVars,
                   bfVars, svVars>>

\* adaptive_threshold lines 579-585: the loads that make total, taken as one
\* step, and the default for an empty histogram
ThresholdSum(t) ==
    /\ t \in active
    /\ apc[t] = "at_sum"
    /\ LET total == total_of(latency_buckets)
       IN  IF total # 0
              THEN /\ apc' = [apc EXCEPT ![t] = "at_scan"]
                   /\ a_loc' = [a_loc EXCEPT ![t].total = total]
                   /\ UNCHANGED a_last
              ELSE IF a_loc[t].caller = "try_recover"
                      THEN /\ apc' = [apc EXCEPT ![t] = "tr_load"]
                           /\ a_loc' = [a_loc EXCEPT ![t].threshold = 5]
                           /\ UNCHANGED a_last
                      ELSE AcbReturn(t, "adaptive_threshold", 0, FALSE, 5)
    /\ UNCHANGED <<envVars, cbVars, vcVars, rtVars, latency_buckets,
                   degradation_level, profile, acb_state, acb_failure_count,
                   acb_last_failure_time, recorded, callsLeft, orVars,
                   clVars, rsVars, paVars, rgVars, tkVars, loVars, ndVars,
                   dtVars, bfVars, svVars>>

\* adaptive_threshold lines 587-597: the loads of the scan, taken as one step
ThresholdScan(t) ==
    /\ t \in active
    /\ apc[t] = "at_scan"
    /\ LET idx == scan(latency_buckets, p95_count(a_loc[t].total), 0)
       IN  IF a_loc[t].caller = "try_recover"
              THEN /\ apc' = [apc EXCEPT ![t] = "tr_load"]
                   /\ a_loc' = [a_loc EXCEPT ![t].threshold = idx]
                   /\ UNCHANGED a_last
              ELSE AcbReturn(t, "adaptive_threshold", 0, FALSE, idx)
    /\ UNCHANGED <<envVars, cbVars, vcVars, rtVars, latency_buckets,
                   degradation_level, profile, acb_state, acb_failure_count,
                   acb_last_failure_time, recorded, callsLeft, orVars,
                   clVars, rsVars, paVars, rgVars, tkVars, loVars, ndVars,
                   dtVars, bfVars, svVars>>

\* try_recover lines 616-619: the load of the level and the test
TryRecoverLoad(t) ==
    /\ t \in active
    /\ apc[t] = "tr_load"
    /\ LET current == degradation_level
       IN  IF recovers(a_loc[t].threshold, current)
              THEN /\ apc' = [apc EXCEPT ![t] = "tr_store"]
                   /\ a_loc' = [a_loc EXCEPT ![t].current = current]
                   /\ UNCHANGED a_last
              ELSE AcbReturn(t, "try_recover", current, FALSE, 0)
    /\ UNCHANGED <<envVars, cbVars, vcVars, rtVars, latency_buckets,
                   degradation_level, profile, acb_state, acb_failure_count,
                   acb_last_failure_time, recorded, callsLeft, orVars,
                   clVars, rsVars, paVars, rgVars, tkVars, loVars, ndVars,
                   dtVars, bfVars, svVars>>

\* try_recover line 620: the store of current - 1
TryRecoverStore(t) ==
    /\ t \in active
    /\ apc[t] = "tr_store"
    /\ degradation_level' = a_loc[t].current - 1
    /\ AcbReturn(t, "try_recover", a_loc[t].current, FALSE, 0)
    /\ UNCHANGED <<envVars, cbVars, vcVars, rtVars, latency_buckets, profile,
                   acb_state, acb_failure_count, acb_last_failure_time,
                   recorded, callsLeft, orVars, clVars, rsVars, paVars,
                   rgVars, tkVars, loVars, ndVars, dtVars, bfVars, svVars>>

\* degrade lines 607-608: the load of the level and the test
DegradeLoad(t) ==
    /\ AcbCall(t)
    /\ LET current == degradation_level
       IN  IF current < 4
              THEN /\ apc' = [apc EXCEPT ![t] = "dg_store"]
                   /\ a_loc' = [a_loc EXCEPT ![t].current = current]
                                  /\ UNCHANGED a_last
              ELSE AcbReturn(t, "degrade", current, FALSE, 0)
    /\ UNCHANGED <<envVars, cbVars, vcVars, rtVars, latency_buckets,
                   degradation_level, profile, acb_state, acb_failure_count,
                   acb_last_failure_time, recorded, orVars, clVars, rsVars,
                   paVars, rgVars, tkVars, loVars, ndVars, dtVars, bfVars,
                   svVars>>

\* degrade line 609: the store of current + 1
DegradeStore(t) ==
    /\ t \in active
    /\ apc[t] = "dg_store"
    /\ degradation_level' = a_loc[t].current + 1
    /\ AcbReturn(t, "degrade", a_loc[t].current, FALSE, 0)
    /\ UNCHANGED <<envVars, cbVars, vcVars, rtVars, latency_buckets, profile,
                   acb_state, acb_failure_count, acb_last_failure_time,
                   recorded, callsLeft, orVars, clVars, rsVars, paVars,
                   rgVars, tkVars, loVars, ndVars, dtVars, bfVars, svVars>>

NextAcb ==
    \E t \in Threads :
        \/ RecordLatency(t)
        \/ ShouldSkipOptional(t)
        \/ CallAdaptiveThreshold(t)
        \/ CallTryRecover(t)
        \/ ThresholdSum(t)
        \/ ThresholdScan(t)
        \/ TryRecoverLoad(t)
        \/ TryRecoverStore(t)
        \/ DegradeLoad(t)
        \/ DegradeStore(t)

(***************************************************************************)
(* Part V.  Layer0Output and the Layer-0 orchestrator that fills it.       *)
(*          Layer0Output is src/rust-protocol/src/reducers.rs lines 71-99; *)
(*          the orchestrator is not in the crate and follows section 4.C8  *)
(*          of the specification, step by step.                            *)
(***************************************************************************)

\* the pattern groups of the noise detector, and no match
NoiseGroups == {"none", "scanner", "exploit", "spray", "binary"}

\* enum RateState
RateState == {"Normal", "Bursty", "Insane"}

\* what the stages report for one payload: the breaker's check_allow, the
\* classifier, the noise detector, the rate tracker and the bloom filter
StageInputs ==
    [allowed : BOOLEAN, proto : Protocol, noise : NoiseGroups,
     rate : RateState, bloom : BOOLEAN]

\* Layer0Output::new lines 82-90
Layer0Output_new(proto) ==
    [proto_guess |-> proto, response_profile |-> "FastFake", tags |-> 0,
     escalate |-> FALSE, suspicion_score |-> 0]

\* Layer0Output::add_tag lines 92-94
add_tag(out, tag) == [out EXCEPT !.tags = BitOr(out.tags, tag)]

\* an add_score whose u8 addition wraps around
add_score_wrapping(out, points) ==
    [out EXCEPT !.suspicion_score = (out.suspicion_score + points) % 256]

\* Layer0Output::add_score lines 96-98: u8 saturating_add
add_score(out, points) ==
    [out EXCEPT !.suspicion_score = Min(255, out.suspicion_score + points)]

\* a tag and its points
tagged(out, tag, points) == add_score(add_tag(out, tag), points)

\* step 1, denied: the minimal output
denied_output == Layer0Output_new("Unknown")

\* step 3
classify_stage(in) ==
    IF in.proto = "Unknown"
       THEN tagged(Layer0Output_new(in.proto), PROTO_UNKNOWN, 5)
       ELSE Layer0Output_new(in.proto)

\* step 4
noise_stage(out, in) ==
    CASE in.noise = "scanner" -> tagged(out, PROBABLE_NOISE, 5)
      [] in.noise = "exploit" -> tagged(out, EXPLOIT_HINT, 40)
      [] in.noise = "spray" -> tagged(out, PROBABLE_NOISE, 10)
      [] in.noise = "binary" -> tagged(out, PROBABLE_NOISE, 5)
      [] OTHER -> out

\* step 5
rate_stage(out, in) ==
    CASE in.rate = "Bursty" -> tagged(out, BURSTY, 5)
      [] in.rate = "Insane" -> tagged(out, BitOr(BURSTY, ODD_CADENCE), 15)
      [] OTHER -> out

\* step 6: the bloom filter is queried and reports probable noise
bloom_hit(in, skip) == ~skip /\ in.bloom

\* step 6: the hit short-circuits the routing step
bloom_drops(in, flags, skip) == bloom_hit(in, skip) /\ flags.bloom_drop

\* step 6
bloom_stage(out, in, flags, skip) ==
    IF bloom_hit(in, skip)
       THEN IF flags.bloom_drop
               THEN [tagged(out, PROBABLE_NOISE, 3) EXCEPT !.escalate = FALSE]
               ELSE tagged(out, PROBABLE_NOISE, 3)
       ELSE out

\* step 7
route_stage(out) ==
    LET lane == route_payload(out.proto_guess, out.suspicion_score, out.tags)
    IN  [out EXCEPT !.response_profile = lane,
                    !.escalate = (lane = "Mirror")]

\* step 9: the verdict stored for an output
verdict_of(out) ==
    CASE out.response_profile = "Mirror" -> "NeedsL1"
      [] out.response_profile = "SlowFake" ->
             IF BitAnd(out.tags, EXPLOIT_HINT) # 0
                THEN "NeedsL1"
                ELSE "KnownNoise"
      [] OTHER -> "Boring"

\* steps 1 to 7 for one payload, with the answer skip of should_skip_optional
layer0_output(in, flags, skip) ==
    IF ~in.allowed
       THEN denied_output
       ELSE LET staged == bloom_stage(rate_stage(noise_stage(
                              classify_stage(in), in), in), in, flags, skip)
            IN  IF bloom_drops(in, flags, skip)
                   THEN staged
                   ELSE route_stage(staged)

\* one payload enters the orchestrator
InitOrchestrator(inputs) ==
    /\ o_in \in inputs
    /\ o_pc = "start"
    /\ output = denied_output
    /\ o_skip = FALSE
    /\ o_verdict = None

\* the orchestrator is not called
OrchestratorUnused ==
    InitOrchestrator({[allowed |-> FALSE, proto |-> "Unknown",
                       noise |-> "none", rate |-> "Normal",
                       bloom |-> FALSE]})

\* step 1: check_allow; a denied call gets the minimal output
Admit ==
    /\ o_pc = "start"
    /\ IF o_in.allowed
          THEN /\ o_pc' = "classify"
               /\ UNCHANGED output
          ELSE /\ o_pc' = "done"
               /\ output' = denied_output
    /\ UNCHANGED <<envVars, cbVars, vcVars, rtVars, acbVars, o_in, o_skip,
                   o_verdict, clVars, rsVars, paVars, rgVars, tkVars, loVars,
                   ndVars, dtVars, bfVars, svVars>>

\* step 3: the classifier
ClassifyStage ==
    /\ o_pc = "classify"
    /\ output' = classify_stage(o_in)
    /\ o_pc' = "noise"
    /\ UNCHANGED <<envVars, cbVars, vcVars, rtVars, acbVars, o_in, o_skip,
                   o_verdict, clVars, rsVars, paVars, rgVars, tkVars, loVars,
                   ndVars, dtVars, bfVars, svVars>>

\* step 4: the noise detector
NoiseStage ==
    /\ o_pc = "noise"
    /\ output' = noise_stage(output, o_in)
    /\ o_pc' = "rate"
    /\ UNCHANGED <<envVars, cbVars, vcVars, rtVars, acbVars, o_in, o_skip,
                   o_verdict, clVars, rsVars, paVars, rgVars, tkVars, loVars,
                   ndVars, dtVars, bfVars, svVars>>

\* step 5: the rate tracker
RateStage ==
    /\ o_pc = "rate"
    /\ output' = rate_stage(output, o_in)
    /\ o_pc' = "bloom"
    /\ UNCHANGED <<envVars, cbVars, vcVars, rtVars, acbVars, o_in, o_skip,
                   o_verdict, clVars, rsVars, paVars, rgVars, tkVars, loVars,
                   ndVars, dtVars, bfVars, svVars>>

\* step 6: should_skip_optional on the adaptive breaker, then the bloom filter
BloomStage ==
    /\ o_pc = "bloom"
    /\ LET skip == should_skip_optional(profile, degradation_level)
       IN  /\ o_skip' = skip
           /\ output' = bloom_stage(output, o_in, profile, skip)
           /\ o_pc' = IF bloom_drops(o_in, profile, skip)
                         THEN "record"
                         ELSE "route"
    /\ UNCHANGED <<envVars, cbVars, vcVars, rtVars, acbVars, o_in, o_verdict,
                   clVars, rsVars, paVars, rgVars, tkVars, loVars, ndVars,
                   dtVars, bfVars, svVars>>

\* step 7: the router
RouteStage ==
    /\ o_pc = "route"
    /\ output' = route_stage(output)
    /\ o_pc' = "record"
    /\ UNCHANGED <<envVars, cbVars, vcVars, rtVars, acbVars, o_in, o_skip,
                   o_verdict, clVars, rsVars, paVars, rgVars, tkVars, loVars,
                   ndVars, dtVars, bfVars, svVars>>

\* step 8: the elapsed duration goes to the breaker
RecordStage ==
    /\ o_pc = "record"
    /\ o_pc' = "store"
    /\ UNCHANGED <<envVars, cbVars, vcVars, rtVars, acbVars, o_in, output,
                   o_skip, o_verdict, clVars, rsVars, paVars, rgVars, tkVars,
                   loVars, ndVars, dtVars, bfVars, svVars>>

\* step 9: the verdict goes to the cache and the output is published
StoreStage ==
    /\ o_pc = "store"
    /\ o_verdict' = verdict_of(output)
    /\ o_pc' = "done"
    /\ UNCHANGED <<envVars, cbVars, vcVars, rtVars, acbVars, o_in, output,
                   o_skip, clVars, rsVars, paVars, rgVars, tkVars, loVars,
                   ndVars, dtVars, bfVars, svVars>>

NextOrchestrator ==
    \/ Admit
    \/ ClassifyStage
    \/ NoiseStage
    \/ RateStage
    \/ BloomStage
    \/ RouteStage
    \/ RecordStage
    \/ StoreStage

(***************************************************************************)
(* Part VI.  The fast protocol classifier                                  *)
(*           (src/rust-protocol/src/reducers.rs)                           *)
(*           A byte string is a sequence of one-character strings.         *)
(***************************************************************************)

\* the 4-byte prefix of an SSH banner
SSH_PREFIX == <<"S", "S", "H", "-">>

\* the 3-byte prefixes of the HTTP methods
HTTP_PREFIXES ==
    {<<"G", "E", "T">>, <<"P", "O", "S">>, <<"P", "U", "T">>,
     <<"D", "E", "L">>, <<"H", "E", "A">>, <<"O", "P", "T">>}

\* the 4-byte FTP commands
FTP_PREFIXES ==
    {<<"U", "S", "E", "R">>, <<"P", "A", "S", "S">>, <<"Q", "U", "I", "T">>,
     <<"R", "E", "T", "R">>}

\* the 4-byte SMTP commands
SMTP_PREFIXES ==
    {<<"H", "E", "L", "O">>, <<"E", "H", "L", "O">>, <<"M", "A", "I", "L">>}

\* byte strings that differ from a prefix in case, in one byte or by a
\* leading byte
NearMisses ==
    {<<"s", "s", "h", "-">>, <<"S", "S", "H", "_">>, <<"G", "E", "X">>,
     <<"g", "e", "t">>, <<" ", "G", "E", "T">>, <<"U", "S", "E", "X">>,
     <<"H", "E", "L", "L">>, <<"M", "A", "I", "-">>}

\* the bytes appended after a prefix
TailBytes == {" ", "-", "S"}

\* the byte strings of at most n tail bytes
RECURSIVE Tails(_)
Tails(n) ==
    IF n = 0
       THEN {<<>>}
       ELSE Tails(n - 1)
                \cup {Append(s, b) : s \in Tails(n - 1), b \in TailBytes}

\* &data[0..n]
Slice(data, n) == SubSeq(data, 1, n)

\* the payloads classified: every prefix and near miss, cut at every length
\* and followed by every tail of at most MaxTail bytes
ClassifyInputs ==
    LET words == {SSH_PREFIX} \cup HTTP_PREFIXES \cup FTP_PREFIXES
                     \cup SMTP_PREFIXES \cup NearMisses
    IN  UNION {{Slice(w, n) \o tl : n \in 0..Len(w), tl \in Tails(MaxTail)} :
                  w \in words}

\* classify_protocol_fast has not been called
NotClassified == "NotClassified"

\* a classifier whose HTTP rule is placed behind the 4-byte length test
classify_protocol_fast_4_bytes(data) ==
    IF Len(data) = 0 THEN "Unknown"
    ELSE IF Len(data) >= 4 /\ Slice(data, 4) = SSH_PREFIX THEN "SSH"
    ELSE IF Len(data) >= 4 /\ Slice(data, 3) \in HTTP_PREFIXES THEN "HTTP"
    ELSE IF Len(data) >= 4 /\ Slice(data, 4) \in FTP_PREFIXES THEN "FTP"
    ELSE IF Len(data) >= 4 /\ Slice(data, 4) \in SMTP_PREFIXES THEN "SMTP"
    ELSE "Unknown"

\* classify_protocol_fast lines 128-163
classify_protocol_fast(data) ==
    IF Len(data) = 0 THEN "Unknown"
    ELSE IF Len(data) >= 4 /\ Slice(data, 4) = SSH_PREFIX THEN "SSH"
    ELSE IF Len(data) >= 3 /\ Slice(data, 3) \in HTTP_PREFIXES THEN "HTTP"
    ELSE IF Len(data) >= 4 /\ Slice(data, 4) \in FTP_PREFIXES THEN "FTP"
    ELSE IF Len(data) >= 4 /\ Slice(data, 4) \in SMTP_PREFIXES THEN "SMTP"
    ELSE "Unknown"

\* the argument of one call of classify_protocol_fast
InitClassifier(payloads) ==
    /\ cl_data \in payloads
    /\ cl_proto = NotClassified

\* the classifier is not called
ClassifierUnused == InitClassifier({<<>>})

\* the call classify_protocol_fast(cl_data)
ClassifyFast ==
    /\ cl_proto = NotClassified
    /\ cl_proto' = classify_protocol_fast(cl_data)
    /\ UNCHANGED <<envVars, cbVars, vcVars, rtVars, acbVars, orVars, cl_data,
                   rsVars, paVars, rgVars, tkVars, loVars, ndVars, dtVars,
                   bfVars, svVars>>

NextClassifier == ClassifyFast

(***************************************************************************)
(* Part VII.  RateStats: the per-source window of request timestamps       *)
(*            (src/rust-protocol/src/reducers.rs)                          *)
(***************************************************************************)

\* the window sizes a RateStats is built with: a short ring and one that can
\* hold more than 20 requests
WindowInputs == {3, MaxWindow}

\* the time between two calls: the 350 ms pause of
\* test_rate_stats_coarse_states and the 1000 ms of the rate window
TickSteps == {350, 1000}

\* rate_state has not been called since the last record
NotAsked == "NotAsked"

\* requests_per_second has not been called since the last record
NoRps == -1

\* RateStats::new lines 345-356
RateStats_new(size) == [i \in 0..(size - 1) |-> 0]

\* requests_per_second lines 367-368: now.saturating_sub(1000)
cutoff(t) == IF t >= 1000 THEN t - 1000 ELSE 0

\* a requests_per_second that also counts a timestamp equal to the cutoff
requests_per_second_from_cutoff(reqs, t) ==
    Cardinality({i \in DOMAIN reqs : reqs[i] >= cutoff(t)})

\* requests_per_second lines 366-375
requests_per_second(reqs, t) ==
    Cardinality({i \in DOMAIN reqs : reqs[i] > cutoff(t)})

\* burstiness_score lines 379-388: the timestamps above 0, sorted
RECURSIVE sorted(_, _)
sorted(reqs, slots) ==
    IF slots = {}
       THEN <<>>
       ELSE LET first == CHOOSE i \in slots :
                             \A j \in slots :
                                 \/ reqs[i] < reqs[j]
                                 \/ reqs[i] = reqs[j] /\ i <= j
            IN  <<reqs[first]>> \o sorted(reqs, slots \ {first})

\* burstiness_score lines 379-388
timestamps(reqs) == sorted(reqs, {i \in DOMAIN reqs : reqs[i] > 0})

\* burstiness_score lines 391-394
deltas(reqs) ==
    LET ts == timestamps(reqs)
    IN  [i \in 1..(Len(ts) - 1) |-> ts[i + 1] - ts[i]]

\* the sum of a sequence of numbers
RECURSIVE sum(_)
sum(s) == IF s = <<>> THEN 0 ELSE Head(s) + sum(Tail(s))

\* the sum of the squares of a sequence of numbers
RECURSIVE sum_sq(_)
sum_sq(s) == IF s = <<>> THEN 0 ELSE Head(s) * Head(s) + sum_sq(Tail(s))

\* burstiness_score lines 378-406 compared with a limit of tenths / 10, in
\* exact arithmetic.  With n deltas of sum S and sum of squares Q the score
\* is min(cv / 2, 1) for cv = sqrt(Q / n - (S / n)^2) / (S / n), and 0 when
\* fewer than two timestamps are stored or S = 0; for a limit below 1,
\* score > limit is n * Q - S^2 > (2 * limit)^2 * S^2.
\* No buffer reached here lies on a limit, where the rounding of the f64
\* operations would decide.
burstiness_above(reqs, tenths) ==
    LET d == deltas(reqs)
        n == Len(d)
        S == sum(d)
        Q == sum_sq(d)
    IN  /\ Len(timestamps(reqs)) >= 2
        /\ S > 0
        /\ n * Q - S * S > (tenths * tenths * S * S) \div 25

\* burstiness_score lines 378-406 compared from above with a limit of
\* tenths / 10: score < limit is n * Q - S^2 < (2 * limit)^2 * S^2, and holds
\* for the score 0 of fewer than two timestamps or of S = 0
burstiness_below(reqs, tenths) ==
    LET d == deltas(reqs)
        n == Len(d)
        S == sum(d)
        Q == sum_sq(d)
    IN  \/ Len(timestamps(reqs)) < 2
        \/ S = 0
        \/ n * Q - S * S <= (tenths * tenths * S * S - 1) \div 25

\* is_automated lines 409-415
is_automated(reqs, t) ==
    requests_per_second(reqs, t) > 5 /\ burstiness_below(reqs, 3)

\* a rate_state whose Bursty limit starts above 6 requests per second
rate_state_above_6(reqs, t) ==
    LET rps == requests_per_second(reqs, t)
    IN  IF rps > 20 \/ (rps > 10 /\ burstiness_above(reqs, 8))
           THEN "Insane"
           ELSE IF rps > 6 \/ burstiness_above(reqs, 6)
                   THEN "Bursty"
                   ELSE "Normal"

\* a rate_state whose Bursty limit includes 5 requests per second
rate_state_from_5(reqs, t) ==
    LET rps == requests_per_second(reqs, t)
    IN  IF rps > 20 \/ (rps > 10 /\ burstiness_above(reqs, 8))
           THEN "Insane"
           ELSE IF rps >= 5 \/ burstiness_above(reqs, 6)
                   THEN "Bursty"
                   ELSE "Normal"

\* rate_state lines 418-429
rate_state(reqs, t) ==
    LET rps == requests_per_second(reqs, t)
    IN  IF rps > 20 \/ (rps > 10 /\ burstiness_above(reqs, 8))
           THEN "Insane"
           ELSE IF rps > 5 \/ burstiness_above(reqs, 6)
                   THEN "Bursty"
                   ELSE "Normal"

\* RateStats::new(window_size) for one of the sizes
InitRateStats(sizes) ==
    /\ window_size \in sizes
    /\ requests = RateStats_new(window_size)
    /\ write_idx = 0
    /\ rs_state = NotAsked
    /\ rs_ticks = MaxTicks

\* no RateStats is used
RateStatsUnused == InitRateStats({3})

\* time passes between two calls on the RateStats
RateTick ==
    /\ rs_ticks > 0
    /\ \E step \in TickSteps : now' = now + step
    /\ rs_ticks' = rs_ticks - 1
    /\ rs_state' = NotAsked
    /\ rps_last' = NoRps
    /\ UNCHANGED <<active, cbVars, vcVars, rtVars, acbVars, orVars, clVars,
                   requests, write_idx, window_size, interval, paces, rgVars,
                   tkVars, loVars, ndVars, dtVars, bfVars, svVars>>

\* record lines 359-363
RateRecord ==
    /\ write_idx < MaxRecords
    /\ LET idx == write_idx % window_size
       IN  requests' = [requests EXCEPT ![idx] = now]
    /\ write_idx' = write_idx + 1
    /\ rs_state' = NotAsked
    /\ rps_last' = NoRps
    /\ UNCHANGED <<envVars, cbVars, vcVars, rtVars, acbVars, orVars, clVars,
                   window_size, rs_ticks, interval, paces, rgVars, tkVars,
                   loVars, ndVars, dtVars, bfVars, svVars>>

\* rate_state lines 418-429
RateStateCall ==
    /\ rs_state = NotAsked
    /\ rs_state' = rate_state(requests, now)
    /\ UNCHANGED <<envVars, cbVars, vcVars, rtVars, acbVars, orVars, clVars,
                   requests, write_idx, window_size, rs_ticks, paVars,
                   rgVars, tkVars, loVars, ndVars, dtVars, bfVars, svVars>>

NextRateStats ==
    \/ RateTick
    \/ RateRecord
    \/ RateStateCall

(***************************************************************************)
(* Part VIII.  RateStats read by requests_per_second, for a source that    *)
(*             records at a fixed interval                                 *)
(*             (src/rust-protocol/src/reducers.rs)                         *)
(***************************************************************************)

\* the window sizes of a paced source
PacedWindows == {3, MaxPacedWindow}

\* the milliseconds between two records of a paced source: divisors of 1000,
\* values between two divisors, the window itself and one more
IntervalInputs == {100, 250, 300, 500, 1000, 1001}

\* a source with the given intervals that has not recorded yet
InitPaced(intervals) ==
    /\ interval \in intervals
    /\ paces = MaxPaces
    /\ rps_last = NoRps

\* no paced source is used
PacedUnused == InitPaced({0})

\* the interval of the source passes
PacedTick ==
    /\ paces > 0
    /\ now' = now + interval
    /\ paces' = paces - 1
    /\ rs_state' = NotAsked
    /\ rps_last' = NoRps
    /\ UNCHANGED <<active, cbVars, vcVars, rtVars, acbVars, orVars, clVars,
                   requests, write_idx, window_size, rs_ticks, interval,
                   rgVars, tkVars, loVars, ndVars, dtVars, bfVars, svVars>>

\* requests_per_second lines 366-375
RequestsPerSecond ==
    /\ rps_last = NoRps
    /\ rps_last' = requests_per_second(requests, now)
    /\ UNCHANGED <<envVars, cbVars, vcVars, rtVars, acbVars, orVars, clVars,
                   rsVars, interval, paces, rgVars, tkVars, loVars, ndVars,
                   dtVars, bfVars, svVars>>

NextPaced ==
    \/ PacedTick
    \/ RateRecord
    \/ RequestsPerSecond

(***************************************************************************)
(* Part IX.  RateStats::record called by concurrent threads.  The read of  *)
(*           the clock, the fetch_add on write_idx and the store into the  *)
(*           slot are one step each.                                       *)
(*           (src/rust-protocol/src/reducers.rs)                           *)
(***************************************************************************)

\* the window sizes of a RateStats shared by threads
RingWindows == {1, 2, 3}

\* the positions of a thread inside record
RingPcs == {"rec_add", "rec_store"}

\* a slot computation that takes the slot after the one the index names
slot_after(old, size) == (old + 1) % size

\* record line 361: fetch_add(1) % window_size, for the value fetched
slot(old, size) == old % size

\* no thread has called record
InitRing ==
    /\ g_pc = [t \in Threads |-> "idle"]
    /\ g_now = [t \in Threads |-> 0]
    /\ g_idx = [t \in Threads |-> 0]
    /\ g_old = [t \in Threads |-> 0]
    /\ g_log = <<>>
    /\ g_calls = MaxRingCalls
    /\ g_overlap = FALSE

\* no RateStats is shared
RingUnused == InitRing

\* record line 360: let now = current_time_ms()
RecordNow(t) ==
    /\ t \in active
    /\ g_pc[t] = "idle"
    /\ g_calls > 0
    /\ g_calls' = g_calls - 1
    /\ g_pc' = [g_pc EXCEPT ![t] = "rec_add"]
    /\ g_now' = [g_now EXCEPT ![t] = now]
    /\ g_overlap' = (g_overlap \/ \E u \in active : g_pc[u] # "idle")
    /\ UNCHANGED <<envVars, cbVars, vcVars, rtVars, acbVars, orVars, clVars,
                   rsVars, paVars, g_idx, g_old, g_log, tkVars, loVars,
                   ndVars, dtVars, bfVars, svVars>>

\* record line 361: write_idx.fetch_add(1) % window_size
RecordFetchAdd(t) ==
    /\ t \in active
    /\ g_pc[t] = "rec_add"
    /\ write_idx' = write_idx + 1
    /\ g_idx' = [g_idx EXCEPT ![t] = slot(write_idx, window_size)]
    /\ g_old' = [g_old EXCEPT ![t] = write_idx]
    /\ g_pc' = [g_pc EXCEPT ![t] = "rec_store"]
    /\ UNCHANGED <<envVars, cbVars, vcVars, rtVars, acbVars, orVars, clVars,
                   requests, window_size, rs_state, rs_ticks, paVars, g_now,
                   g_log, g_calls, g_overlap, tkVars, loVars, ndVars, dtVars,
                   bfVars, svVars>>

\* record line 362: requests[idx].store(now); the call returns
RecordStore(t) ==
    /\ t \in active
    /\ g_pc[t] = "rec_store"
    /\ requests' = [requests EXCEPT ![g_idx[t]] = g_now[t]]
    /\ g_log' = Append(g_log, g_now[t])
    /\ g_pc' = [g_pc EXCEPT ![t] = "idle"]
    /\ g_now' = [g_now EXCEPT ![t] = 0]
    /\ g_idx' = [g_idx EXCEPT ![t] = 0]
    /\ g_old' = [g_old EXCEPT ![t] = 0]
    /\ rs_state' = NotAsked
    /\ rps_last' = NoRps
    /\ UNCHANGED <<envVars, cbVars, vcVars, rtVars, acbVars, orVars, clVars,
                   write_idx, window_size, rs_ticks, interval, paces,
                   g_calls, g_overlap, tkVars, loVars, ndVars, dtVars,
                   bfVars, svVars>>

NextRing ==
    \/ RateTick
    \/ \E t \in Threads : RecordNow(t)
    \/ \E t \in Threads : RecordFetchAdd(t)
    \/ \E t \in Threads : RecordStore(t)

(***************************************************************************)
(* Part X.  RateTracker: the map from ip to a shared RateStats, under one  *)
(*          mutex.  get_stats and the retain of cleanup_inactive are one   *)
(*          step each; record(ip) then runs RateStats::record on the Arc   *)
(*          it got, outside the mutex, step by step as in Part IX.         *)
(*          (src/rust-protocol/src/reducers.rs)                            *)
(***************************************************************************)

\* the source addresses
TrackerIps == {"10.0.0.1", "10.0.0.2"}

\* the window sizes a tracker is built with
TrackerWindows == {1, 2}

\* the max_age_ms values of the cleanup passes
AgeInputs == {1, 2}

\* the positions of a thread inside record(ip) and cleanup_inactive
TrackerPcs == {"tr_now", "tr_add", "tr_store", "cl_lock"}

\* no record(ip) has returned
NoRecord == [obj |-> 0, ts |-> 0]

\* get_stats has not been called
NoStats == [ip |-> "", obj |-> 0, due |-> 0]

\* RateStats::new lines 345-356, as an object of the heap
RateStats_obj(size) == [requests |-> RateStats_new(size), write_idx |-> 0]

\* get_stats lines 449-451: entry(ip).or_insert_with(RateStats::new),
\* giving the map, the heap and the object returned
get_stats(stats, objs, size, ip) ==
    IF ip \in DOMAIN stats
       THEN [stats |-> stats, objs |-> objs, obj |-> stats[ip]]
       ELSE [stats |-> [x \in (DOMAIN stats) \cup {ip} |->
                           IF x = ip THEN Len(objs) + 1 ELSE stats[x]],
             objs |-> Append(objs, RateStats_obj(size)),
             obj |-> Len(objs) + 1]

\* a test of one slot that also takes a timestamp of exactly max_age_ms ago
is_recent_inclusive(t, n, max_age_ms) == t > 0 /\ t <= n /\ n - t <= max_age_ms

\* cleanup_inactive lines 468-469 for one slot: t > 0 && now - t < max_age_ms
\* on u64 without overflow checks; for t > now the difference wraps to a
\* value near 2^64, which no max_age_ms used here exceeds
is_recent(t, n, max_age_ms) == t > 0 /\ t <= n /\ n - t < max_age_ms

\* cleanup_inactive lines 467-470: requests.iter().any(..)
any_recent(reqs, n, max_age_ms) ==
    \E i \in DOMAIN reqs : is_recent(reqs[i], n, max_age_ms)

\* cleanup_inactive line 469: now - t overflows on a slot that any() reaches,
\* one with no recent slot before it
overflows(reqs, n, max_age_ms) ==
    \E i \in DOMAIN reqs :
        /\ reqs[i] > n
        /\ \A j \in DOMAIN reqs :
               j < i => ~is_recent(reqs[j], n, max_age_ms)

\* cleanup_inactive lines 465-471: retain, applied to the entries of ips
retain(stats, objs, ips, n, max_age_ms) ==
    LET keep == {ip \in DOMAIN stats :
                    \/ ip \notin ips
                    \/ any_recent(objs[stats[ip]].requests, n, max_age_ms)}
    IN  [ip \in keep |-> stats[ip]]

\* the object that a get_stats(ip) made now is due to return: the one the
\* last returned record(ip) wrote into, if the timestamp it wrote is less
\* than max_age_ms old
due_object(ip) ==
    IF tk_last[ip].obj # 0 /\ now - tk_last[ip].ts < tk_age
       THEN tk_last[ip].obj
       ELSE 0

\* RateTracker::new lines 439-444, and the max_age_ms of its cleanup passes
InitTracker(sizes, ages) ==
    /\ tk_stats = <<>>
    /\ tk_objs = <<>>
    /\ tk_window \in sizes
    /\ tk_age \in ages
    /\ tk_poisoned = FALSE
    /\ tk_pc = [t \in Threads |-> "idle"]
    /\ tk_ip = [t \in Threads |-> ""]
    /\ tk_obj = [t \in Threads |-> 0]
    /\ tk_now = [t \in Threads |-> 0]
    /\ tk_idx = [t \in Threads |-> 0]
    /\ tk_last = [ip \in TrackerIps |-> NoRecord]
    /\ tk_ret = NoStats
    /\ tk_calls = MaxTrackerCalls
    /\ tk_ticks = MaxTrackerTicks

\* no RateTracker is used
TrackerUnused == InitTracker({1}, {1})

\* the call of thread t returns or unwinds: its locals go out of scope
TrackerReturn(t) ==
    /\ tk_pc' = [tk_pc EXCEPT ![t] = "idle"]
    /\ tk_ip' = [tk_ip EXCEPT ![t] = ""]
    /\ tk_obj' = [tk_obj EXCEPT ![t] = 0]
    /\ tk_now' = [tk_now EXCEPT ![t] = 0]
    /\ tk_idx' = [tk_idx EXCEPT ![t] = 0]

\* a millisecond passes
TrackerTick ==
    /\ tk_ticks > 0
    /\ tk_ticks' = tk_ticks - 1
    /\ now' = now + 1
    /\ UNCHANGED <<active, cbVars, vcVars, rtVars, acbVars, orVars, clVars,
                   rsVars, paVars, rgVars, tk_stats, tk_objs, tk_window,
                   tk_age, tk_poisoned, tk_pc, tk_ip, tk_obj, tk_now, tk_idx,
                   tk_last, tk_ret, tk_calls, loVars, ndVars, dtVars, bfVars,
                   svVars>>

\* get_stats lines 447-452, called on its own
GetStats(t, ip) ==
    /\ t \in active
    /\ tk_pc[t] = "idle"
    /\ tk_calls > 0
    /\ ~tk_poisoned
    /\ tk_calls' = tk_calls - 1
    /\ LET got == get_stats(tk_stats, tk_objs, tk_window, ip)
       IN  /\ tk_stats' = got.stats
           /\ tk_objs' = got.objs
           /\ tk_ret' = [ip |-> ip, obj |-> got.obj, due |-> due_object(ip)]
    /\ UNCHANGED <<envVars, cbVars, vcVars, rtVars, acbVars, orVars, clVars,
                   rsVars, paVars, rgVars, tk_window, tk_age, tk_poisoned,
                   tk_pc, tk_ip, tk_obj, tk_now, tk_idx, tk_last, tk_ticks,
                   loVars, ndVars, dtVars, bfVars, svVars>>

\* record line 456: let stats = self.get_stats(ip)
RecordGetStats(t, ip) ==
    /\ t \in active
    /\ tk_pc[t] = "idle"
    /\ tk_calls > 0
    /\ ~tk_poisoned
    /\ tk_calls' = tk_calls - 1
    /\ LET got == get_stats(tk_stats, tk_objs, tk_window, ip)
       IN  /\ tk_stats' = got.stats
           /\ tk_objs' = got.objs
           /\ tk_ret' = [ip |-> ip, obj |-> got.obj, due |-> due_object(ip)]
           /\ tk_obj' = [tk_obj EXCEPT ![t] = got.obj]
    /\ tk_ip' = [tk_ip EXCEPT ![t] = ip]
    /\ tk_pc' = [tk_pc EXCEPT ![t] = "tr_now"]
    /\ UNCHANGED <<envVars, cbVars, vcVars, rtVars, acbVars, orVars, clVars,
                   rsVars, paVars, rgVars, tk_window, tk_age, tk_poisoned,
                   tk_now, tk_idx, tk_last, tk_ticks, loVars, ndVars, dtVars,
                   bfVars, svVars>>

\* record line 457, RateStats::record line 360: the clock is read
TrackedNow(t) ==
    /\ t \in active
    /\ tk_pc[t] = "tr_now"
    /\ tk_now' = [tk_now EXCEPT ![t] = now]
    /\ tk_pc' = [tk_pc EXCEPT ![t] = "tr_add"]
    /\ UNCHANGED <<envVars, cbVars, vcVars, rtVars, acbVars, orVars, clVars,
                   rsVars, paVars, rgVars, tk_stats, tk_objs, tk_window,
                   tk_age, tk_poisoned, tk_ip, tk_obj, tk_idx, tk_last,
                   tk_ret, tk_calls, tk_ticks, loVars, ndVars, dtVars,
                   bfVars, svVars>>

\* RateStats::record line 361: fetch_add on the object's write_idx
TrackedFetchAdd(t) ==
    /\ t \in active
    /\ tk_pc[t] = "tr_add"
    /\ LET o == tk_objs[tk_obj[t]]
       IN  /\ tk_idx' = [tk_idx EXCEPT ![t] = slot(o.write_idx, tk_window)]
           /\ tk_objs' = [tk_objs EXCEPT ![tk_obj[t]].write_idx = o.write_idx + 1]
    /\ tk_pc' = [tk_pc EXCEPT ![t] = "tr_store"]
    /\ UNCHANGED <<envVars, cbVars, vcVars, rtVars, acbVars, orVars, clVars,
                   rsVars, paVars, rgVars, tk_stats, tk_window, tk_age,
                   tk_poisoned, tk_ip, tk_obj, tk_now, tk_last, tk_ret,
                   tk_calls, tk_ticks, loVars, ndVars, dtVars, bfVars,
                   svVars>>

\* RateStats::record line 362: the store; record(ip) returns
TrackedStore(t) ==
    /\ t \in active
    /\ tk_pc[t] = "tr_store"
    /\ tk_objs' = [tk_objs EXCEPT ![tk_obj[t]].requests[tk_idx[t]] = tk_now[t]]
    /\ tk_last' = [tk_last EXCEPT ![tk_ip[t]] =
                      [obj |-> tk_obj[t], ts |-> tk_now[t]]]
    /\ TrackerReturn(t)
    /\ UNCHANGED <<envVars, cbVars, vcVars, rtVars, acbVars, orVars, clVars,
                   rsVars, paVars, rgVars, tk_stats, tk_window, tk_age,
                   tk_poisoned, tk_ret, tk_calls, tk_ticks, loVars, ndVars,
                   dtVars, bfVars, svVars>>

\* cleanup_inactive line 462: let now = current_time_ms()
CleanupNow(t) ==
    /\ t \in active
    /\ tk_pc[t] = "idle"
    /\ tk_calls > 0
    /\ tk_calls' = tk_calls - 1
    /\ tk_now' = [tk_now EXCEPT ![t] = now]
    /\ tk_pc' = [tk_pc EXCEPT ![t] = "cl_lock"]
    /\ UNCHANGED <<envVars, cbVars, vcVars, rtVars, acbVars, orVars, clVars,
                   rsVars, paVars, rgVars, tk_stats, tk_objs, tk_window,
                   tk_age, tk_poisoned, tk_ip, tk_obj, tk_idx, tk_last,
                   tk_ret, tk_ticks, loVars, ndVars, dtVars, bfVars, svVars>>

\* cleanup_inactive lines 463-471: lock and retain, in a build without
\* overflow checks
CleanupRetain(t) ==
    /\ t \in active
    /\ tk_pc[t] = "cl_lock"
    /\ ~tk_poisoned
    /\ tk_stats' = retain(tk_stats, tk_objs, DOMAIN tk_stats, tk_now[t], tk_age)
    /\ TrackerReturn(t)
    /\ UNCHANGED <<envVars, cbVars, vcVars, rtVars, acbVars, orVars, clVars,
                   rsVars, paVars, rgVars, tk_objs, tk_window, tk_age,
                   tk_poisoned, tk_last, tk_ret, tk_calls, tk_ticks, loVars,
                   ndVars, dtVars, bfVars, svVars>>

\* cleanup_inactive lines 463-471 in a build with overflow checks: now - t
\* panics on a slot written after the clock was read, after retain has gone
\* through some of the other entries; the guard is dropped while unwinding
\* and the mutex is poisoned
CleanupPanics(t) ==
    /\ t \in active
    /\ tk_pc[t] = "cl_lock"
    /\ ~tk_poisoned
    /\ \E ip \in DOMAIN tk_stats :
           /\ overflows(tk_objs[tk_stats[ip]].requests, tk_now[t], tk_age)
           /\ \E before \in SUBSET ((DOMAIN tk_stats) \ {ip}) :
                  /\ \A b \in before :
                         ~overflows(tk_objs[tk_stats[b]].requests, tk_now[t],
                                    tk_age)
                  /\ tk_stats' = retain(tk_stats, tk_objs, before, tk_now[t],
                                        tk_age)
    /\ tk_poisoned' = TRUE
    /\ TrackerReturn(t)
    /\ UNCHANGED <<envVars, cbVars, vcVars, rtVars, acbVars, orVars, clVars,
                   rsVars, paVars, rgVars, tk_objs, tk_window, tk_age,
                   tk_last, tk_ret, tk_calls, tk_ticks, loVars, ndVars,
                   dtVars, bfVars, svVars>>

\* get_stats line 448, cleanup_inactive line 463: lock().unwrap() on a
\* poisoned mutex panics
TrackerLockPoisoned(t) ==
    /\ t \in active
    /\ tk_poisoned
    /\ \/ tk_pc[t] = "cl_lock"
       \/ tk_pc[t] = "idle" /\ tk_calls > 0
    /\ tk_calls' = IF tk_pc[t] = "idle" THEN tk_calls - 1 ELSE tk_calls
    /\ TrackerReturn(t)
    /\ UNCHANGED <<envVars, cbVars, vcVars, rtVars, acbVars, orVars, clVars,
                   rsVars, paVars, rgVars, tk_stats, tk_objs, tk_window,
                   tk_age, tk_poisoned, tk_last, tk_ret, tk_ticks, loVars,
                   ndVars, dtVars, bfVars, svVars>>

NextTracker ==
    \/ TrackerTick
    \/ \E t \in Threads : \E ip \in TrackerIps : GetStats(t, ip)
    \/ \E t \in Threads : \E ip \in TrackerIps : RecordGetStats(t, ip)
    \/ \E t \in Threads : TrackedNow(t)
    \/ \E t \in Threads : TrackedFetchAdd(t)
    \/ \E t \in Threads : TrackedStore(t)
    \/ \E t \in Threads : CleanupNow(t)
    \/ \E t \in Threads : CleanupRetain(t)
    \/ \E t \in Threads : CleanupPanics(t)
    \/ \E t \in Threads : TrackerLockPoisoned(t)

(***************************************************************************)
(* Part XI.  Layer0Output under any sequence of add_tag and add_score      *)
(*           (src/rust-protocol/src/reducers.rs)                           *)
(***************************************************************************)

\* the points of add_score, a u8: nothing, the stage contributions, and
\* values that saturate the score
PointInputs == {0, 3, 5, 40, 100, 255}

\* the tag arguments of add_tag, a u32: no bit, the six defined bits, the two
\* bits of an Insane rate, and a bit that no tag names
TagArguments ==
    {0, PROBABLE_NOISE, REPEATED_PROBE, EXPLOIT_HINT, BURSTY, ODD_CADENCE,
     PROTO_UNKNOWN, BitOr(BURSTY, ODD_CADENCE), 64}

\* Layer0Output::new, before any add_tag or add_score
InitOutput ==
    /\ lo_out \in {Layer0Output_new(p) : p \in {"HTTP", "Unknown"}}
    /\ lo_sum = 0
    /\ lo_added = {}
    /\ lo_ops = MaxOutputOps

\* no Layer0Output is used on its own
OutputUnused ==
    /\ lo_out = Layer0Output_new("Unknown")
    /\ lo_sum = 0
    /\ lo_added = {}
    /\ lo_ops = MaxOutputOps

\* add_score lines 96-98
AddScore(points) ==
    /\ lo_ops > 0
    /\ lo_ops' = lo_ops - 1
    /\ lo_out' = add_score(lo_out, points)
    /\ lo_sum' = lo_sum + points
    /\ UNCHANGED <<envVars, cbVars, vcVars, rtVars, acbVars, orVars, clVars,
                   rsVars, paVars, rgVars, tkVars, lo_added, ndVars, dtVars,
                   bfVars, svVars>>

\* add_tag lines 92-94
AddTag(tag) ==
    /\ lo_ops > 0
    /\ lo_ops' = lo_ops - 1
    /\ lo_out' = add_tag(lo_out, tag)
    /\ lo_added' = lo_added \cup {tag}
    /\ UNCHANGED <<envVars, cbVars, vcVars, rtVars, acbVars, orVars, clVars,
                   rsVars, paVars, rgVars, tkVars, lo_sum, ndVars, dtVars,
                   bfVars, svVars>>

NextOutput ==
    \/ \E points \in PointInputs : AddScore(points)
    \/ \E tag \in TagArguments : AddTag(tag)

(***************************************************************************)
(* Part XII.  NoiseDetector: the pattern list, check_hint and              *)
(*            boring_noise_response                                        *)
(*            (src/rust-protocol/src/reducers.rs).  A payload is a         *)
(*            sequence of bytes, a byte a one-character string; "00" and   *)
(*            "7f" stand for the bytes 0x00 and 0x7f.                      *)
(***************************************************************************)

\* NoiseDetector::new lines 190-215: the pattern list, in its order.  The
\* tenth pattern is the twelve characters \x90\x90\x90 (the source escapes
\* the backslashes).
patterns ==
    <<<<"m", "a", "s", "s", "c", "a", "n">>, <<"n", "m", "a", "p">>,
      <<"z", "g", "r", "a", "b">>, <<"s", "h", "o", "d", "a", "n">>,
      <<"c", "e", "n", "s", "y", "s">>,
      <<"m", "e", "t", "a", "s", "p", "l", "o", "i", "t">>,
      <<"m", "s", "f", "c", "o", "n", "s", "o", "l", "e">>,
      <<"e", "x", "p", "l", "o", "i", "t", "/">>,
      <<"p", "a", "y", "l", "o", "a", "d", "/">>,
      <<"\\", "x", "9", "0", "\\", "x", "9", "0", "\\", "x", "9", "0">>,
      <<"a", "d", "m", "i", "n", ":", "a", "d", "m", "i", "n">>,
      <<"r", "o", "o", "t", ":", "r", "o", "o", "t">>,
      <<"t", "e", "s", "t", ":", "t", "e", "s", "t">>,
      <<"p", "a", "s", "s", "w", "o", "r", "d", ":", "p", "a", "s", "s", "w", "o", "r", "d">>,
      <<"1", "2", "3", "4", "5", "6">>, <<"00", "00", "00", "00">>,
      <<"7f", "E", "L", "F">>, <<"A", "A", "A", "A">>,
      <<"%", "s", "%", "s", "%", "s", "%", "s">>,
      <<".", ".", "/", ".", ".", "/", ".", ".", "/", ".", ".", "/">>>>

\* pattern().as_usize() counts from 0: the pattern with index idx
pattern(idx) == patterns[idx + 1]

\* the indices of the patterns
PatternIndex == 0..(Len(patterns) - 1)

\* Option<usize>::None of check_hint
NoHint == -1

\* check_hint has not been called
NotChecked == -2

\* boring_noise_response has not been called
NoReply == "NoReply"

\* pattern p occurs in data, ending with byte number e
ends_at(p, data, e) ==
    /\ e >= Len(p)
    /\ e <= Len(data)
    /\ SubSeq(data, e - Len(p) + 1, e) = p

\* the byte numbers at which some pattern's occurrence ends
match_ends(data) ==
    {e \in 1..Len(data) : \E i \in PatternIndex : ends_at(pattern(i), data, e)}

\* check_hint line 225: AhoCorasick::find with the default match kind reports
\* the match that the scan of the payload completes first, the one that ends
\* earliest; no pattern of the list is a suffix of another, so one pattern at
\* most ends at a byte
check_hint(data) ==
    IF match_ends(data) = {}
       THEN NoHint
       ELSE LET first == CHOOSE e \in match_ends(data) :
                             \A f \in match_ends(data) : e <= f
            IN  CHOOSE i \in PatternIndex : ends_at(pattern(i), data, first)

\* a boring_noise_response whose ranges start one index late
boring_noise_response_from_1(pattern_idx) ==
    CASE pattern_idx \in 1..5 -> "Connection timed out\n"
      [] pattern_idx \in 6..10 -> "Segmentation fault (core dumped)\n"
      [] pattern_idx \in 11..15 -> "Authentication failed\n"
      [] OTHER -> "Bad request\n"

\* boring_noise_response lines 229-236
boring_noise_response(pattern_idx) ==
    CASE pattern_idx \in 0..4 -> "Connection timed out\n"
      [] pattern_idx \in 5..9 -> "Segmentation fault (core dumped)\n"
      [] pattern_idx \in 10..14 -> "Authentication failed\n"
      [] OTHER -> "Bad request\n"

\* what surrounds a pattern in a payload: nothing, or a byte
Fillers == {<<>>, <<" ">>}

\* near misses of patterns: a byte short, another case, a byte changed
NoiseNearMisses ==
    {<<"n", "m", "a">>, <<"N", "M", "A", "P">>, <<"A", "A", "A">>,
     <<"1", "2", "3", "4", "5">>, <<"r", "o", "o", "t", ":">>,
     <<"00", "00", "00">>, <<"G", "E", "T">>}

\* the pieces of a payload with one piece
Fragments == {pattern(i) : i \in PatternIndex} \cup NoiseNearMisses

\* the pieces of a payload with two: the first and the last pattern of each
\* group
PairFragments == {pattern(i) : i \in {0, 4, 5, 9, 10, 14, 15, 19}}

\* the payloads of check_hint: nothing, one piece with or without a byte in
\* front, or two pieces in either order with or without a byte between them
NoisePayloads ==
    {pre \o a : pre \in Fillers, a \in Fragments \cup {<<>>}}
    \cup {a \o mid \o b :
              mid \in Fillers, a \in PairFragments, b \in PairFragments}

\* the pattern_idx arguments of boring_noise_response: every index of the
\* list and indices past its end
IndexInputs == 0..(Len(patterns) + MaxPastEnd)

\* a NoiseDetector, a payload and an index, before any call
InitNoise(payloads, indices) ==
    /\ nd_payload \in payloads
    /\ nd_idx \in indices
    /\ nd_hint = NotChecked
    /\ nd_reply = NoReply
    /\ nd_idx_reply = NoReply

\* no NoiseDetector is used
NoiseUnused == InitNoise({<<>>}, {0})

\* check_hint lines 224-226
CheckHint ==
    /\ nd_hint = NotChecked
    /\ nd_hint' = check_hint(nd_payload)
    /\ UNCHANGED <<envVars, cbVars, vcVars, rtVars, acbVars, orVars, clVars,
                   rsVars, paVars, rgVars, tkVars, loVars, nd_payload,
                   nd_idx, nd_reply, nd_idx_reply, dtVars, bfVars, svVars>>

\* boring_noise_response lines 229-236, for the index check_hint returned
HintResponse ==
    /\ nd_hint \notin {NotChecked, NoHint}
    /\ nd_reply = NoReply
    /\ nd_reply' = boring_noise_response(nd_hint)
    /\ UNCHANGED <<envVars, cbVars, vcVars, rtVars, acbVars, orVars, clVars,
                   rsVars, paVars, rgVars, tkVars, loVars, nd_payload,
                   nd_idx, nd_hint, nd_idx_reply, dtVars, bfVars, svVars>>

\* boring_noise_response lines 229-236, for any index
IndexResponse ==
    /\ nd_idx_reply = NoReply
    /\ nd_idx_reply' = boring_noise_response(nd_idx)
    /\ UNCHANGED <<envVars, cbVars, vcVars, rtVars, acbVars, orVars, clVars,
                   rsVars, paVars, rgVars, tkVars, loVars, nd_payload,
                   nd_idx, nd_hint, nd_reply, dtVars, bfVars, svVars>>

NextNoise ==
    \/ CheckHint
    \/ HintResponse
    \/ IndexResponse

(***************************************************************************)
(* Part XIII.  detect_threats, the entry point the Python side calls       *)
(*             (src/rust-protocol/src/lib.rs)                              *)
(*                                                                         *)
(* One caller at a time.  With no other breaker call in flight, check_allow*)
(* and record_result of Part I run from their first step to their return   *)
(* without interleaving, which the operators check_allow and record_result *)
(* below compute; the history variables of Part I are not kept here.  The  *)
(* milliseconds an analysis takes lie inside the current reset window; the *)
(* end of the window is Tick.                                              *)
(***************************************************************************)

\* the three fields of CIRCUIT_BREAKER
Breaker ==
    [state |-> state, failure_count |-> failure_count,
     last_failure_time |-> last_failure_time]

\* line 155: the longest payload, in bytes, that detect_threats analyses
PayloadLimit == 1000000

\* the payload lengths: the longest payload analysed and the shortest refused
LengthInputs == {PayloadLimit, PayloadLimit + 1}

\* what catch_unwind around analyze_for_threats ends with: Ok(None),
\* Ok(Some(threat)) or Err(panic)
AnalysisOutcomes == {"nothing", "threat", "panic"}

\* the elapsed milliseconds of an analysis: none, the threshold, and more
ElapsedInputs == {0} \cup DurationInputs

DetectInputs ==
    [len : LengthInputs, noise_hint : BOOLEAN, analysis : AnalysisOutcomes]

NoInput == [len |-> 0, noise_hint |-> FALSE, analysis |-> "nothing"]

\* what the caller holds while its call has not returned
NoResult ==
    [kind |-> "NoResult", admitted |-> FALSE, threat_detected |-> FALSE,
     is_noise |-> FALSE, latency_ms |-> 0]

\* what a call has done before its first step
NoneDone == [analyses |-> 0, records |-> 0, reported |-> 0]

\* a detect_threats that lets a panic of the analysis unwind past line 192
after_analysis_unwinding(outcome) ==
    IF outcome = "panic" THEN "return" ELSE "record"

\* lines 173-192: catch_unwind returns whatever the analysis ends with, and
\* record_result is the next statement
after_analysis(outcome) == "record"

\* check_allow lines 54-84 run without interleaving at clock value n: the
\* value returned and the state left behind
check_allow(b, n) ==
    CASE b.state = "Closed" -> [allow |-> TRUE, state |-> b.state]
      [] b.state = "Open" ->
            IF TimeoutExpired(n, b.last_failure_time)
               THEN [allow |-> TRUE, state |-> "HalfOpen"]
               ELSE [allow |-> FALSE, state |-> b.state]
      [] b.state = "HalfOpen" -> [allow |-> TRUE, state |-> b.state]

\* trip_circuit lines 134-137
trip_circuit(b, n) == [b EXCEPT !.state = "Open", !.last_failure_time = n]

\* reset_circuit lines 139-142
reset_circuit(b) == [b EXCEPT !.state = "Closed", !.failure_count = 0]

\* an arm of handle_failure or handle_success run to its return at clock
\* value n
run_arm(b, n, arm) ==
    CASE arm = "hf_add" ->
            IF ThresholdReached(b.failure_count + 1)
               THEN trip_circuit([b EXCEPT !.failure_count = @ + 1], n)
               ELSE [b EXCEPT !.failure_count = @ + 1]
      [] arm = "trip_state"  -> trip_circuit(b, n)
      [] arm = "hf_open"     -> [b EXCEPT !.last_failure_time = n]
      [] arm = "reset_state" -> reset_circuit(b)
      [] arm = "hs_store"    -> [b EXCEPT !.failure_count = 0]
      [] arm = "idle"        -> b

\* record_result lines 87-95 run without interleaving at clock value n
record_result(b, n, duration_ms) ==
    run_arm(b, n, IF IsFailure(duration_ms)
                     THEN handle_failure(b.state)
                     ELSE handle_success(b.state))

\* the process before its first detect_threats call
InitDetect ==
    /\ d_pc = "idle"
    /\ d_in = NoInput
    /\ d_before = Breaker
    /\ d_duration = 0
    /\ d_result = NoResult
    /\ d_calls = MaxDetectCalls
    /\ d_done = NoneDone

\* detect_threats is not called
DetectUnused ==
    /\ d_pc = "idle"
    /\ d_in = NoInput
    /\ d_before = [state |-> "Closed", failure_count |-> 0,
                   last_failure_time |-> 0]
    /\ d_duration = 0
    /\ d_result = NoResult
    /\ d_calls = 0
    /\ d_done = NoneDone

\* detect_threats_py lines 143-149: the call is made
DetectCall(input) ==
    /\ d_pc = "idle"
    /\ d_calls > 0
    /\ d_calls' = d_calls - 1
    /\ d_pc' = "check_allow"
    /\ d_in' = input
    /\ d_before' = Breaker
    /\ d_duration' = 0
    /\ d_result' = NoResult
    /\ d_done' = NoneDone
    /\ UNCHANGED <<envVars, cbVars, vcVars, rtVars, acbVars, orVars, clVars,
                   rsVars, paVars, rgVars, tkVars, loVars, ndVars, bfVars,
                   svVars>>

\* lines 151-153: if !CIRCUIT_BREAKER.check_allow() { return Ok(None) }
DetectCheckAllow ==
    /\ d_pc = "check_allow"
    /\ LET r == check_allow(Breaker, now)
       IN  /\ state' = r.state
           /\ ret' = r.allow
           /\ IF r.allow
                 THEN /\ d_pc' = "size"
                      /\ d_result' = d_result
                 ELSE /\ d_pc' = "idle"
                      /\ d_result' = [NoResult EXCEPT !.kind = "None"]
    /\ UNCHANGED <<envVars, failure_count, last_failure_time, pc, st, dur,
                   nowL, failBudget, failsSinceClosed, tripTime, seenTrip,
                   wins, vcVars, rtVars, acbVars, orVars, clVars, rsVars,
                   paVars, rgVars, tkVars, loVars, ndVars, d_in, d_before,
                   d_duration, d_calls, d_done, bfVars, svVars>>

\* lines 155-159: if payload.len() > 1_000_000 { return Err(PyValueError) }
DetectSizeCheck ==
    /\ d_pc = "size"
    /\ IF d_in.len > PayloadLimit
          THEN /\ d_pc' = "idle"
               /\ d_result' = [NoResult EXCEPT !.kind = "ValueError",
                                               !.admitted = TRUE]
          ELSE /\ d_pc' = "analyze"
               /\ d_result' = d_result
    /\ UNCHANGED <<envVars, cbVars, vcVars, rtVars, acbVars, orVars, clVars,
                   rsVars, paVars, rgVars, tkVars, loVars, ndVars, d_in,
                   d_before, d_duration, d_calls, d_done, bfVars, svVars>>

\* lines 173-191: the analysis under catch_unwind ends after elapsed
\* milliseconds; duration = start_time.elapsed()
DetectAnalyze(elapsed) ==
    /\ d_pc = "analyze"
    /\ d_pc' = after_analysis(d_in.analysis)
    /\ d_duration' = elapsed
    /\ d_done' = [d_done EXCEPT !.analyses = @ + 1]
    /\ UNCHANGED <<envVars, cbVars, vcVars, rtVars, acbVars, orVars, clVars,
                   rsVars, paVars, rgVars, tkVars, loVars, ndVars, d_in,
                   d_before, d_result, d_calls, bfVars, svVars>>

\* line 192: CIRCUIT_BREAKER.record_result(duration)
DetectRecord ==
    /\ d_pc = "record"
    /\ d_pc' = "return"
    /\ d_done' = [d_done EXCEPT !.records = @ + 1, !.reported = d_duration]
    /\ LET b == record_result(Breaker, now, d_duration)
       IN  /\ state' = b.state
           /\ failure_count' = b.failure_count
           /\ last_failure_time' = b.last_failure_time
    /\ UNCHANGED <<envVars, pc, st, dur, nowL, ret, failBudget,
                   failsSinceClosed, tripTime, seenTrip, wins, vcVars,
                   rtVars, acbVars, orVars, clVars, rsVars, paVars, rgVars,
                   tkVars, loVars, ndVars, d_in, d_before, d_duration,
                   d_result, d_calls, bfVars, svVars>>

\* lines 194-227: a panic counts as no threat; Ok(None) when there is
\* neither a threat nor a noise hint, else the dict
DetectReturn ==
    /\ d_pc = "return"
    /\ d_pc' = "idle"
    /\ LET threat == d_in.analysis = "threat"
       IN  d_result' =
              IF ~threat /\ ~d_in.noise_hint
                 THEN [NoResult EXCEPT !.kind = "None", !.admitted = TRUE]
                 ELSE [kind |-> "Dict", admitted |-> TRUE,
                       threat_detected |-> threat,
                       is_noise |-> d_in.noise_hint,
                       latency_ms |-> d_duration]
    /\ UNCHANGED <<envVars, cbVars, vcVars, rtVars, acbVars, orVars, clVars,
                   rsVars, paVars, rgVars, tkVars, loVars, ndVars, d_in,
                   d_before, d_duration, d_calls, d_done, bfVars, svVars>>

NextDetect ==
    \/ Tick
    \/ \E input \in DetectInputs : DetectCall(input)
    \/ DetectCheckAllow
    \/ DetectSizeCheck
    \/ \E elapsed \in ElapsedInputs : DetectAnalyze(elapsed)
    \/ DetectRecord
    \/ DetectReturn

(***************************************************************************)
(* Part XIV.  ScannerNoiseFilter                                           *)
(*            (src/rust-protocol/src/reducers.rs)                          *)
(*                                                                         *)
(* Both methods build their key and then run under the filter's mutex, so  *)
(* a call is one step.  The filter is the BloomFilter of the bloom crate:  *)
(* a set of bits, of which insert sets the ones the key hashes to and      *)
(* contains tests them.  The hash functions here are two sums over the     *)
(* characters of the key, on so few bits that different keys share bits.   *)
(***************************************************************************)

\* the source addresses: one, and one that contains the separator of the key
FilterIps == {<<"a">>, <<"a", ":", "b">>}

\* the payloads as bytes: text, text that contains the separator, the byte
\* 0xff, which is not UTF-8, and the UTF-8 encoding of U+FFFD as one unit
FilterPayloads == {<<"c">>, <<"b", ":", "c">>, <<"ff">>, <<"FFFD">>}

\* String::from_utf8_lossy: a byte sequence that is not UTF-8 becomes U+FFFD
from_utf8_lossy(payload) ==
    [i \in 1..Len(payload) |->
        IF payload[i] = "ff" THEN "FFFD" ELSE payload[i]]

\* lines 498 and 505: format!("{}:{}", ip, String::from_utf8_lossy(payload))
filter_key(ip, payload) == ip \o <<":">> \o from_utf8_lossy(payload)

\* the number a character enters the hash sums with
CharCode(c) ==
    CASE c = "a" -> 1
      [] c = "b" -> 2
      [] c = "c" -> 3
      [] c = ":" -> 4
      [] c = "FFFD" -> 5

\* the bits a key hashes to
bloom_positions(key) ==
    LET codes == [i \in 1..Len(key) |-> CharCode(key[i])]
        weighted == [i \in 1..Len(key) |-> i * CharCode(key[i])]
    IN  {sum(codes) % MaxBloomBits, sum(weighted) % MaxBloomBits}

\* BloomFilter::insert
bloom_insert(bits, key) == bits \cup bloom_positions(key)

\* BloomFilter::contains
bloom_contains(bits, key) == bloom_positions(key) \subseteq bits

\* ScannerNoiseFilter::new lines 488-494
ScannerNoiseFilter_new(flags) == [bloom |-> {}, profile |-> flags]

\* is_probable_noise lines 497-501
is_probable_noise(f, ip, payload) ==
    bloom_contains(f.bloom, filter_key(ip, payload))

\* a mark_noise on a filter that holds only the key marked last
mark_noise_forgetting(f, ip, payload) ==
    [f EXCEPT !.bloom = bloom_insert({}, filter_key(ip, payload))]

\* mark_noise lines 504-508
mark_noise(f, ip, payload) ==
    [f EXCEPT !.bloom = bloom_insert(@, filter_key(ip, payload))]

\* is_probable_noise has not been called since the last mark_noise
NotProbed == [ip |-> <<>>, payload |-> <<>>, answers |-> <<>>]

\* two filters, one built with either profile
InitFilter ==
    /\ bf_filters = <<ScannerNoiseFilter_new(HOME),
                      ScannerNoiseFilter_new(ENTERPRISE)>>
    /\ bf_marked = {}
    /\ bf_last = NotProbed
    /\ bf_calls = MaxFilterCalls

\* no ScannerNoiseFilter is used
FilterUnused ==
    /\ bf_filters = <<ScannerNoiseFilter_new(HOME),
                      ScannerNoiseFilter_new(ENTERPRISE)>>
    /\ bf_marked = {}
    /\ bf_last = NotProbed
    /\ bf_calls = 0

\* mark_noise(ip, payload) on either filter
MarkNoise(ip, payload) ==
    /\ bf_calls > 0
    /\ bf_calls' = bf_calls - 1
    /\ bf_filters' = [i \in 1..2 |-> mark_noise(bf_filters[i], ip, payload)]
    /\ bf_marked' = bf_marked \cup {<<ip, payload>>}
    /\ bf_last' = NotProbed
    /\ UNCHANGED <<envVars, cbVars, vcVars, rtVars, acbVars, orVars, clVars,
                   rsVars, paVars, rgVars, tkVars, loVars, ndVars, dtVars,
                   svVars>>

\* is_probable_noise(ip, payload) on either filter
IsProbableNoise(ip, payload) ==
    /\ bf_calls > 0
    /\ bf_calls' = bf_calls - 1
    /\ bf_last' = [ip |-> ip, payload |-> payload,
                   answers |-> [i \in 1..2 |->
                                  is_probable_noise(bf_filters[i], ip, payload)]]
    /\ UNCHANGED <<envVars, cbVars, vcVars, rtVars, acbVars, orVars, clVars,
                   rsVars, paVars, rgVars, tkVars, loVars, ndVars, dtVars,
                   bf_filters, bf_marked, svVars>>

NextFilter ==
    \/ \E ip \in FilterIps : \E payload \in FilterPayloads :
          MarkNoise(ip, payload)
    \/ \E ip \in FilterIps : \E payload \in FilterPayloads :
          IsProbableNoise(ip, payload)

(***************************************************************************)
(* Part XV.  ServerStats of the TCP server                                 *)
(*           (src/rust-protocol/src/main.rs)                               *)
(*                                                                         *)
(* connections and total_connections are behind one tokio Mutex each.  A   *)
(* block that locks one of them and releases it before its next await is   *)
(* one step.  get_stats keeps the guard of connections while it awaits the *)
(* mutex of total_connections, which takes two steps; a task that needs    *)
(* the mutex of connections waits for the second.  The tasks are spawned   *)
(* on the runtime and run in any order.                                    *)
(***************************************************************************)

\* the handle_client tasks
Clients == 1..MaxClients

\* no task holds the mutex of connections across an await
NoTask == "NoTask"

\* the task that runs get_stats
StatsTask == "StatsTask"

\* a handle_client task has no connection_id yet
NoId == 0

\* get_stats has not returned yet
NoSnapshot == [active_connections |-> 0, total_connections |-> 0,
            taken |-> FALSE]

\* Uuid::new_v4 line 48: an id no other connection has; the task's number
\* stands for it
new_v4(t) == t

\* add_connection lines 58-61: connections.push(connection)
push(conns, connection_id) == Append(conns, connection_id)

\* remove_connection line 74: connections.retain(|conn| conn.id != id)
retain_connection(conns, connection_id) ==
    SelectSeq(conns, LAMBDA id : id # connection_id)

\* get_stats lines 91-96: the json! value, its two counts
stats_json(conns, total) ==
    [active_connections |-> Len(conns), total_connections |-> total,
     taken |-> TRUE]

\* ServerStats::new lines 39-45, and main before any client
InitServer ==
    /\ connections = <<>>
    /\ total_connections = 0
    /\ sv_holder = NoTask
    /\ sv_pc = [t \in Clients |-> "accepted"]
    /\ sv_id = [t \in Clients |-> NoId]
    /\ sv_stats = NoSnapshot
    /\ sv_calls = MaxStatsCalls

\* no ServerStats is used
ServerUnused ==
    /\ connections = <<>>
    /\ total_connections = 0
    /\ sv_holder = NoTask
    /\ sv_pc = [t \in Clients |-> "closed"]
    /\ sv_id = [t \in Clients |-> NoId]
    /\ sv_stats = NoSnapshot
    /\ sv_calls = 0

\* add_connection lines 48-61: the connection is built and pushed under the
\* mutex of connections
AddConnectionPush(t) ==
    /\ sv_pc[t] = "accepted"
    /\ sv_holder = NoTask
    /\ sv_id' = [sv_id EXCEPT ![t] = new_v4(t)]
    /\ connections' = push(connections, new_v4(t))
    /\ sv_pc' = [sv_pc EXCEPT ![t] = "add_total"]
    /\ UNCHANGED <<envVars, cbVars, vcVars, rtVars, acbVars, orVars, clVars,
                   rsVars, paVars, rgVars, tkVars, loVars, ndVars, dtVars,
                   bfVars, total_connections, sv_holder, sv_stats, sv_calls>>

\* add_connection lines 63-69: *total += 1 under the mutex of
\* total_connections, and the id is returned
AddConnectionTotal(t) ==
    /\ sv_pc[t] = "add_total"
    /\ total_connections' = total_connections + 1
    /\ sv_pc' = [sv_pc EXCEPT ![t] = "connected"]
    /\ UNCHANGED <<envVars, cbVars, vcVars, rtVars, acbVars, orVars, clVars,
                   rsVars, paVars, rgVars, tkVars, loVars, ndVars, dtVars,
                   bfVars, connections, sv_holder, sv_id, sv_stats, sv_calls>>

\* handle_client line 152, remove_connection lines 72-76
RemoveConnection(t) ==
    /\ sv_pc[t] = "connected"
    /\ sv_holder = NoTask
    /\ connections' = retain_connection(connections, sv_id[t])
    /\ sv_pc' = [sv_pc EXCEPT ![t] = "closed"]
    /\ UNCHANGED <<envVars, cbVars, vcVars, rtVars, acbVars, orVars, clVars,
                   rsVars, paVars, rgVars, tkVars, loVars, ndVars, dtVars,
                   bfVars, total_connections, sv_holder, sv_id, sv_stats,
                   sv_calls>>

\* get_stats line 88: the guard of connections is taken and kept
GetStatsLock ==
    /\ sv_calls > 0
    /\ sv_holder = NoTask
    /\ sv_calls' = sv_calls - 1
    /\ sv_holder' = StatsTask
    /\ UNCHANGED <<envVars, cbVars, vcVars, rtVars, acbVars, orVars, clVars,
                   rsVars, paVars, rgVars, tkVars, loVars, ndVars, dtVars,
                   bfVars, connections, total_connections, sv_pc, sv_id,
                   sv_stats>>

\* get_stats lines 89-97: total_connections is read under its mutex, the
\* value is built, the guard of connections is dropped
GetStatsTotal ==
    /\ sv_holder = StatsTask
    /\ sv_stats' = stats_json(connections, total_connections)
    /\ sv_holder' = NoTask
    /\ UNCHANGED <<envVars, cbVars, vcVars, rtVars, acbVars, orVars, clVars,
                   rsVars, paVars, rgVars, tkVars, loVars, ndVars, dtVars,
                   bfVars, connections, total_connections, sv_pc, sv_id,
                   sv_calls>>

NextServer ==
    \/ \E t \in Clients : AddConnectionPush(t)
    \/ \E t \in Clients : AddConnectionTotal(t)
    \/ \E t \in Clients : RemoveConnection(t)
    \/ GetStatsLock
    \/ GetStatsTotal

\* the parts of Part XIV and after that a specification does not exercise
TailUnused ==
    /\ FilterUnused
    /\ ServerUnused

\* the parts of Part VIII and after that a specification does not exercise
RestUnused ==
    /\ PacedUnused
    /\ RingUnused
    /\ TrackerUnused
    /\ OutputUnused
    /\ NoiseUnused
    /\ DetectUnused
    /\ TailUnused

\* the parts of the crate that a specification does not exercise
ReducersUnused ==
    /\ RouterUnused
    /\ AcbUnused
    /\ OrchestratorUnused
    /\ ClassifierUnused
    /\ RateStatsUnused
    /\ RestUnused

(***************************************************************************)
(* Specifications                                                          *)
(***************************************************************************)

\* the cache is constructed and not used
CacheUnused == InitCache({1}, {1})

\* one caller of the breaker: calls run one after the other
InitSeq == InitEnv({1}) /\ InitBreaker /\ CacheUnused /\ ReducersUnused

SpecSeq == InitSeq /\ [][NextBreaker]_vars

\* NumThreads concurrent callers of the shared static breaker
Init == InitEnv(Threads) /\ InitBreaker /\ CacheUnused /\ ReducersUnused

Next == NextBreaker

Spec == Init /\ [][Next]_vars

\* Liveness: threads run their calls to completion, the clock advances, and
\* the caller keeps calling check_allow and keeps reporting successes.
InitLive == InitEnv({1}) /\ InitBreaker /\ CacheUnused /\ ReducersUnused

SpecLive ==
    /\ InitLive
    /\ [][NextBreaker]_vars
    /\ WF_vars(Tick)
    /\ \A t \in Threads : WF_vars(Continue(t))
    /\ \A t \in Threads : SF_vars(CallCheckAllow(t))
    /\ \A t \in Threads : SF_vars(CallRecordResult(t, LATENCY_THRESHOLD_MS))

\* NumThreads concurrent callers of one cache, for every construction
InitCacheRun ==
    /\ InitEnv(Threads) /\ InitBreaker /\ ReducersUnused
    /\ InitCache(0..MaxSize, TtlInputs)

SpecCache == InitCacheRun /\ [][NextCache]_vars

\* one call of route_payload, for every argument
InitRoute ==
    /\ InitEnv({1}) /\ InitBreaker /\ CacheUnused
    /\ InitRouter(Protocol, ScoreInputs, TagInputs)
    /\ AcbUnused /\ OrchestratorUnused /\ ClassifierUnused
    /\ RateStatsUnused
    /\ RestUnused

SpecRoute == InitRoute /\ [][NextRouter]_vars


\* threads calling one AdaptiveCircuitBreaker concurrently, in either profile
InitAcbRun ==
    /\ InitEnv(Threads) /\ InitBreaker /\ CacheUnused /\ RouterUnused
    /\ InitAcb({HOME, ENTERPRISE}, {Normal})
    /\ OrchestratorUnused /\ ClassifierUnused
    /\ RateStatsUnused
    /\ RestUnused

SpecAcb == InitAcbRun /\ [][NextAcb]_vars

\* one thread calling one AdaptiveCircuitBreaker
InitAcbSeq ==
    /\ InitEnv({1}) /\ InitBreaker /\ CacheUnused /\ RouterUnused
    /\ InitAcb({HOME, ENTERPRISE}, {Normal})
    /\ OrchestratorUnused /\ ClassifierUnused
    /\ RateStatsUnused
    /\ RestUnused

SpecAcbSeq == InitAcbSeq /\ [][NextAcb]_vars

\* the degradation levels
DegradationLevel == Normal..StaticOnly

\* one payload through the orchestrator, for every report of the stages,
\* every profile and every degradation level
InitPipeline ==
    /\ InitEnv({1}) /\ InitBreaker /\ CacheUnused /\ RouterUnused
    /\ InitAcb(ProfileFlags, DegradationLevel)
    /\ InitOrchestrator(StageInputs)
    /\ ClassifierUnused /\ RateStatsUnused
    /\ RestUnused

SpecPipeline == InitPipeline /\ [][NextOrchestrator]_vars


\* one call of classify_protocol_fast, for every payload
InitClassify ==
    /\ InitEnv({1}) /\ InitBreaker /\ CacheUnused /\ RouterUnused
    /\ AcbUnused /\ OrchestratorUnused
    /\ InitClassifier(ClassifyInputs)
    /\ RateStatsUnused
    /\ RestUnused

SpecClassify == InitClassify /\ [][NextClassifier]_vars

\* one source recording requests into its RateStats and asking for its state
InitRate ==
    /\ InitEnv({1}) /\ InitBreaker /\ CacheUnused /\ RouterUnused
    /\ AcbUnused /\ OrchestratorUnused /\ ClassifierUnused
    /\ InitRateStats(WindowInputs)
    /\ RestUnused

SpecRate == InitRate /\ [][NextRateStats]_vars

\* a source recording at a fixed interval and asking for its rate
InitPacedRun ==
    /\ InitEnv({1}) /\ InitBreaker /\ CacheUnused /\ RouterUnused
    /\ AcbUnused /\ OrchestratorUnused /\ ClassifierUnused
    /\ InitRateStats(PacedWindows)
    /\ InitPaced(IntervalInputs)
    /\ RingUnused /\ TrackerUnused /\ OutputUnused /\ NoiseUnused /\ DetectUnused /\ TailUnused

SpecPaced == InitPacedRun /\ [][NextPaced]_vars

\* two threads recording into one RateStats concurrently
InitRingRun ==
    /\ InitEnv({1, 2}) /\ InitBreaker /\ CacheUnused /\ RouterUnused
    /\ AcbUnused /\ OrchestratorUnused /\ ClassifierUnused
    /\ InitRateStats(RingWindows)
    /\ PacedUnused
    /\ InitRing
    /\ TrackerUnused /\ OutputUnused /\ NoiseUnused /\ DetectUnused /\ TailUnused

SpecRing == InitRingRun /\ [][NextRing]_vars

\* two threads recording into, reading and cleaning one RateTracker
InitTrackerRun ==
    /\ InitEnv({1, 2}) /\ InitBreaker /\ CacheUnused /\ RouterUnused
    /\ AcbUnused /\ OrchestratorUnused /\ ClassifierUnused
    /\ RateStatsUnused /\ PacedUnused /\ RingUnused
    /\ InitTracker(TrackerWindows, AgeInputs)
    /\ OutputUnused /\ NoiseUnused /\ DetectUnused /\ TailUnused

SpecTracker == InitTrackerRun /\ [][NextTracker]_vars

\* one thread doing the same
InitTrackerSeq ==
    /\ InitEnv({1}) /\ InitBreaker /\ CacheUnused /\ RouterUnused
    /\ AcbUnused /\ OrchestratorUnused /\ ClassifierUnused
    /\ RateStatsUnused /\ PacedUnused /\ RingUnused
    /\ InitTracker(TrackerWindows, AgeInputs)
    /\ OutputUnused /\ NoiseUnused /\ DetectUnused /\ TailUnused

SpecTrackerSeq == InitTrackerSeq /\ [][NextTracker]_vars

\* add_tag and add_score called on one Layer0Output in every order
InitOutputRun ==
    /\ InitEnv({1}) /\ InitBreaker /\ CacheUnused /\ RouterUnused
    /\ AcbUnused /\ OrchestratorUnused /\ ClassifierUnused
    /\ RateStatsUnused /\ PacedUnused /\ RingUnused /\ TrackerUnused
    /\ InitOutput
    /\ NoiseUnused /\ DetectUnused /\ TailUnused

SpecOutput == InitOutputRun /\ [][NextOutput]_vars

\* one payload through check_hint and boring_noise_response
InitNoiseRun ==
    /\ InitEnv({1}) /\ InitBreaker /\ CacheUnused /\ RouterUnused
    /\ AcbUnused /\ OrchestratorUnused /\ ClassifierUnused
    /\ RateStatsUnused /\ PacedUnused /\ RingUnused /\ TrackerUnused
    /\ OutputUnused
    /\ InitNoise(NoisePayloads, IndexInputs)
    /\ DetectUnused /\ TailUnused

SpecNoise == InitNoiseRun /\ [][NextNoise]_vars

\* one caller of detect_threats after another, and the clock
InitDetectRun ==
    /\ InitEnv({1}) /\ InitBreaker /\ CacheUnused /\ RouterUnused
    /\ AcbUnused /\ OrchestratorUnused /\ ClassifierUnused
    /\ RateStatsUnused /\ PacedUnused /\ RingUnused /\ TrackerUnused
    /\ OutputUnused /\ NoiseUnused
    /\ InitDetect
    /\ TailUnused

SpecDetect == InitDetectRun /\ [][NextDetect]_vars

\* the scores on either side of the router's two thresholds, and the ends of
\* the u8 range
ScoreSteps == {0, 1, 19, 20, 21, 49, 50, 51, 254, 255}

\* one call of route_payload, to be compared with the calls that have a
\* score at least as high and a tag set at least as large
InitRouteOrder ==
    /\ InitEnv({1}) /\ InitBreaker /\ CacheUnused
    /\ InitRouter(Protocol, ScoreSteps, TagInputs)
    /\ AcbUnused /\ OrchestratorUnused /\ ClassifierUnused
    /\ RateStatsUnused
    /\ RestUnused

SpecRouteOrder == InitRouteOrder /\ [][NextRouter]_vars

\* a RateStats of at most 20 slots: the shortest ring and the longest that
\* cannot hold more than 20 requests
InitRateSmall ==
    /\ InitEnv({1}) /\ InitBreaker /\ CacheUnused /\ RouterUnused
    /\ AcbUnused /\ OrchestratorUnused /\ ClassifierUnused
    /\ InitRateStats({3, 20})
    /\ RestUnused

SpecRateSmall == InitRateSmall /\ [][NextRateStats]_vars

\* mark_noise and is_probable_noise called in every order on two filters
\* that differ in their profile only
InitFilterRun ==
    /\ InitEnv({1}) /\ InitBreaker /\ CacheUnused /\ RouterUnused
    /\ AcbUnused /\ OrchestratorUnused /\ ClassifierUnused
    /\ RateStatsUnused /\ PacedUnused /\ RingUnused /\ TrackerUnused
    /\ OutputUnused /\ NoiseUnused /\ DetectUnused
    /\ InitFilter /\ ServerUnused

SpecFilter == InitFilterRun /\ [][NextFilter]_vars

\* two concurrent callers of a cache of one entry
InitCacheReads ==
    /\ InitEnv({1, 2}) /\ InitBreaker /\ ReducersUnused
    /\ InitCache({1}, TtlInputs)

SpecCacheReads == InitCacheReads /\ [][NextCache]_vars

\* handle_client tasks and get_stats tasks on one ServerStats
InitServerRun ==
    /\ InitEnv({1}) /\ InitBreaker /\ CacheUnused /\ RouterUnused
    /\ AcbUnused /\ OrchestratorUnused /\ ClassifierUnused
    /\ RateStatsUnused /\ PacedUnused /\ RingUnused /\ TrackerUnused
    /\ OutputUnused /\ NoiseUnused /\ DetectUnused /\ FilterUnused
    /\ InitServer

SpecServer == InitServerRun /\ [][NextServer]_vars
(***************************************************************************)
(* Properties of the CircuitBreaker                                        *)
(***************************************************************************)

\* the step with which a record_result call of thread t returns
RecordReturns(t) == pc[t] \in RecordPcs /\ pc'[t] = "idle"

\* the step in which thread t executes the compare_exchange of check_allow
CasRuns(t) == pc[t] = "ca_cas" /\ pc'[t] = "idle"

\* no threshold-exceeding result is being handled or will be reported
NoMoreFailures ==
    /\ failBudget = 0
    /\ \A t \in Threads :
          pc[t] \notin {"hf_add", "hf_open", "trip_state", "trip_time"}

\* thread t is inside a record_result that loaded state Closed
InClosedRecord(t) == pc[t] \in RecordPcs /\ st[t] = "Closed"

\* C1: in a sequential run, a record_result that finds the breaker Closed
\* returns with failure_count = 0 and state Closed when its duration is
\* <= LATENCY_THRESHOLD_MS; when its duration is > LATENCY_THRESHOLD_MS it adds
\* one to failure_count, once, from a value below FAILURE_THRESHOLD, and
\* returns with state Open exactly when failure_count has reached
\* FAILURE_THRESHOLD.
ClosedCountsFailures ==
    [][\A t \in Threads :
          /\ (InClosedRecord(t) /\ dur[t] <= LATENCY_THRESHOLD_MS
                /\ pc'[t] = "idle") =>
                (failure_count' = 0 /\ state' = "Closed")
          /\ (pc[t] = "idle" /\ pc'[t] \in RecordPcs /\ st'[t] = "Closed"
                /\ dur'[t] > LATENCY_THRESHOLD_MS) =>
                (pc'[t] = "hf_add" /\ failure_count < FAILURE_THRESHOLD)
          /\ (InClosedRecord(t) /\ dur[t] > LATENCY_THRESHOLD_MS) =>
                /\ failure_count' = IF pc[t] = "hf_add"
                                       THEN failure_count + 1
                                       ELSE failure_count
                /\ pc'[t] = "idle" =>
                      (state' = "Open") = (failure_count' = FAILURE_THRESHOLD)]_vars

\* C1 witness: the caller has reported exactly FAILURE_THRESHOLD failures and
\* no more, the last of them has opened the breaker
TrippedAtThreshold ==
    /\ pc[1] = "idle"
    /\ state = "Open"
    /\ failBudget = MaxFailures - FAILURE_THRESHOLD
    /\ failure_count = FAILURE_THRESHOLD
    /\ last_failure_time = tripTime

\* C2: whenever the state changes from Closed to Open, at least
\* FAILURE_THRESHOLD threshold-exceeding results have been reported since the
\* state last became Closed.
OpenOnlyAfterThreshold ==
    [][(state = "Closed" /\ state' = "Open") =>
          failsSinceClosed >= FAILURE_THRESHOLD]_vars

\* C3: a check_allow that loaded state Open and read the clock less than
\* RESET_TIMEOUT_MS after the trip that opened the breaker does not swap the
\* state to HalfOpen (it returns false).
DeniedBeforeTimeout ==
    [][\A t \in Threads :
          (CasRuns(t) /\ ret') =>
             nowL[t] >= seenTrip[t] + RESET_TIMEOUT_MS]_vars

HalfOpenResolves ==
    [][\A t \in Threads :
          (RecordReturns(t) /\ st[t] = "HalfOpen") =>
             IF dur[t] > LATENCY_THRESHOLD_MS
                THEN state' = "Open" /\ last_failure_time' = now'
                ELSE state' = "Closed" /\ failure_count' = 0]_vars

\* C5 witness: the probe admitted after the first trip has failed and the
\* breaker is Open again, its window restarted at the time of the second trip
ReopenedFromHalfOpen ==
    /\ pc[1] = "idle"
    /\ state = "Open"
    /\ tripTime >= EpochStart + RESET_TIMEOUT_MS
    /\ last_failure_time = tripTime
    /\ failBudget = MaxFailures - FAILURE_THRESHOLD - 1

\* C6: once no more failures are recorded, an Open breaker becomes HalfOpen
\* and then Closed.
OpenEventuallyRecovers ==
    /\ (state = "Open" /\ NoMoreFailures) ~> (state = "HalfOpen" /\ ret)
    /\ (state = "Open" /\ NoMoreFailures) ~> (state = "Closed")

\* C6 witness: the breaker was Open, no failure budget is left, and it is
\* Closed again
RecoveredToClosed ==
    /\ state = "Closed"
    /\ failBudget = 0
    /\ tripTime > 0
    /\ failure_count = 0
    /\ pc[1] = "idle"

(***************************************************************************)
(* Properties of the VerdictCache                                          *)
(***************************************************************************)

\* the step in which thread t, holding the mutex, executes the body of get
GetRuns(t) == cpc[t] = "get_lock" /\ cpc'[t] = "idle" /\ ~poisoned

\* the step in which thread t, holding the mutex, executes the body of set
SetRuns(t) == cpc[t] = "set_lock" /\ cpc'[t] = "idle" /\ ~poisoned

\* the entry that the set of thread t inserts
NewEntry(t) == [verdict |-> cverdict[t], ts |-> cnow[t]]

\* the set of thread t has removed entry o and nothing else, then inserted
EvictedAndInserted(t, o) ==
    /\ DOMAIN cache' = ((DOMAIN cache) \ {o}) \cup {ckey[t]}
    /\ cache'[ckey[t]] = NewEntry(t)
    /\ \A x \in (DOMAIN cache) \ {o, ckey[t]} : cache'[x] = cache[x]

\* the set of thread t has removed nothing, and inserted
OnlyInserted(t) ==
    /\ DOMAIN cache' = (DOMAIN cache) \cup {ckey[t]}
    /\ cache'[ckey[t]] = NewEntry(t)
    /\ \A x \in (DOMAIN cache) \ {ckey[t]} : cache'[x] = cache[x]

\* C7: the cache never holds more than max_size entries.
SizeWithinMax == Cardinality(DOMAIN cache) <= max_size

\* C8: get(key) returns the stored verdict if and only if an entry for key
\* exists with now - insertion_ts < ttl_ms (now being the clock value the get
\* read); an entry with now - insertion_ts >= ttl_ms is not returned and is
\* removed by the get.
GetReturnsIffFresh ==
    [][\A t \in Threads :
          GetRuns(t) =>
             LET k == ckey[t]
                 has == k \in DOMAIN cache
             IN  /\ (has /\ cnow[t] - cache[k].ts < ttl_ms) =>
                       cret' = cache[k].verdict
                 /\ cret' # None =>
                       (has /\ cnow[t] - cache[k].ts < ttl_ms
                            /\ cret' = cache[k].verdict)
                 /\ (has /\ cnow[t] - cache[k].ts >= ttl_ms) =>
                       (cret' = None /\ k \notin DOMAIN cache')]_vars

\* C9: a set that finds size >= max_size removes exactly one entry, one with
\* the smallest insertion timestamp, and inserts (key, verdict, now); a set
\* that finds size < max_size removes nothing and changes no entry other than
\* key's own.
SetEvictsExactlyOne ==
    [][\A t \in Threads :
          SetRuns(t) =>
             IF Cardinality(DOMAIN cache) >= max_size
                THEN \E o \in DOMAIN cache :
                        /\ \A x \in DOMAIN cache : cache[o].ts <= cache[x].ts
                        /\ EvictedAndInserted(t, o)
                ELSE OnlyInserted(t)]_vars

\* The eviction rule for the caches that hold an entry when the set runs:
\* the rule of C9 with the set that finds an empty cache at capacity, which
\* happens for max_size = 0 only, taken as a set below capacity.
SetEvictsOldestIfAny ==
    [][\A t \in Threads :
          SetRuns(t) =>
             IF Cardinality(DOMAIN cache) >= max_size /\ DOMAIN cache # {}
                THEN \E o \in DOMAIN cache :
                        /\ \A x \in DOMAIN cache : cache[o].ts <= cache[x].ts
                        /\ EvictedAndInserted(t, o)
                ELSE OnlyInserted(t)]_vars

\* C10: with max_size >= 1, a get(key) called after set(key, v), less than
\* ttl_ms later and with no set executed in between, returns Some(v); and a
\* set(key, v2) leaves key's entry holding v2 with the time of that set.
GetAfterSetReturnsIt ==
    [][\A t \in Threads :
          /\ (GetRuns(t) /\ max_size >= 1 /\ afterSet[t]) =>
                cret' = lastSet.verdict
          /\ (SetRuns(t) /\ max_size >= 1) =>
                cache'[ckey[t]] = NewEntry(t)]_vars

(***************************************************************************)
(* Properties of the router                                                *)
(***************************************************************************)

\* bit b is set in the tag set ts
TagSet(ts, b) == (ts \div b) % 2 = 1

\* the tags that the claim says do not matter
IgnoredTags == {PROBABLE_NOISE, REPEATED_PROBE, BURSTY}

\* the tag set ts with bit b set (on = 1) or cleared (on = 0)
WithTag(ts, b, on) == ts - ((ts \div b) % 2) * b + on * b

\* C11: route_payload returns exactly one profile for every (proto, score,
\* tags): Mirror iff score >= 50 or EXPLOIT_HINT is set; otherwise SlowFake iff
\* score >= 20 or PROTO_UNKNOWN or ODD_CADENCE is set; otherwise FastFake; and
\* the profile is the same for every proto and for every setting of
\* PROBABLE_NOISE, REPEATED_PROBE and BURSTY.
RouteByScoreAndTags ==
    routed # NotRouted =>
       /\ routed \in ResponseProfile
       /\ (routed = "Mirror") =
             (r_score >= 50 \/ TagSet(r_tags, EXPLOIT_HINT))
       /\ (routed = "SlowFake") =
             (/\ ~(r_score >= 50 \/ TagSet(r_tags, EXPLOIT_HINT))
              /\ \/ r_score >= 20
                 \/ TagSet(r_tags, PROTO_UNKNOWN)
                 \/ TagSet(r_tags, ODD_CADENCE))
       /\ (routed = "FastFake") =
             (/\ r_score < 20
              /\ ~TagSet(r_tags, EXPLOIT_HINT)
              /\ ~TagSet(r_tags, PROTO_UNKNOWN)
              /\ ~TagSet(r_tags, ODD_CADENCE))
       /\ \A p \in Protocol : route_payload(p, r_score, r_tags) = routed
       /\ \A b \in IgnoredTags : \A on \in {0, 1} :
             route_payload(r_proto, r_score, WithTag(r_tags, b, on)) = routed

\* C11 witness: a score below 20 with ODD_CADENCE as the only routing tag is
\* routed to Lane 2
RoutedByCadenceOnly ==
    /\ routed = "SlowFake"
    /\ r_score = 19
    /\ r_tags = ODD_CADENCE + BURSTY
    /\ r_proto = "SSH"


\* the orchestrator has published its output
Published == o_pc = "done"

\* C12: every published Layer0Output, in the HOME and in the ENTERPRISE
\* profile and on every path through the stages, has response_profile Mirror
\* when its tags contain EXPLOIT_HINT.
ExploitHintIsMirror ==
    (Published /\ profile \in {HOME, ENTERPRISE}
          /\ BitAnd(output.tags, EXPLOIT_HINT) # 0)
        => output.response_profile = "Mirror"

\* the lane of a response profile: route_payload's Lane 1, Lane 2, Lane 3
Lane(response_profile) ==
    CASE response_profile = "FastFake" -> 1
      [] response_profile = "SlowFake" -> 2
      [] response_profile = "Mirror" -> 3

\* the output of the same payload, rate and bloom state when nothing is
\* skipped
Unshed == layer0_output(o_in, profile, FALSE)

\* C13: an output published after optional work was skipped
\* (should_skip_optional answered true, at whatever degradation level) is
\* never in a lower lane than the output the same payload, rate state and
\* bloom state give when nothing is skipped; a payload that is Mirror without
\* shedding is not FastFake with it.
SheddingNeverLowersLane ==
    (Published /\ o_skip) =>
        /\ Lane(output.response_profile) >= Lane(Unshed.response_profile)
        /\ Unshed.response_profile = "Mirror" =>
               output.response_profile # "FastFake"

\* C13 witness: shedding skipped a bloom hit that would have short-circuited
\* the router, and the published lane is the higher one
ShedRaisedLane ==
    /\ Published /\ o_skip /\ o_in.bloom
    /\ output.response_profile = "Mirror"
    /\ Unshed.response_profile = "FastFake"

\* C13 and C18, the frame of the adaptive breaker: no call of record_latency,
\* degrade or try_recover (and no other call) changes the fields state,
\* failure_count and last_failure_time of the AdaptiveCircuitBreaker, and the
\* failure threshold is a constant of the crate
SheddingKeepsBreakerFields ==
    [][/\ acb_state' = acb_state
       /\ acb_failure_count' = acb_failure_count
       /\ acb_last_failure_time' = acb_last_failure_time
       /\ UNCHANGED <<state, failure_count, last_failure_time>>]_vars

\* the call that returned in this step is op
Returned(op) == a_last' # a_last /\ a_last'.op = op

\* C14: should_skip_optional returns false on a breaker built with
\* latency_adaptive_security = false, whatever the degradation level and the
\* histogram, and on a breaker built with latency_adaptive_security = true it
\* returns true exactly when the degradation level is at least L2Only.
SkipOnlyWhenAdaptiveAndDegraded ==
    [][Returned("should_skip_optional") =>
          /\ a_last'.arg = degradation_level
          /\ ~profile.latency_adaptive_security => a_last'.skip = FALSE
          /\ profile.latency_adaptive_security =>
                 (a_last'.skip = TRUE <=> degradation_level >= L2Only)]_vars

\* C14 witness: a degraded HOME breaker with samples in its histogram
\* answered false
HomeDegradedDoesNotSkip ==
    /\ a_last.op = "should_skip_optional"
    /\ a_last.skip = FALSE
    /\ profile = HOME
    /\ degradation_level >= L2Only
    /\ recorded > 0

\* C15: the degradation level stays within Normal..StaticOnly and every
\* change of it is by exactly one step, +1 by a degrade and -1 by a
\* try_recover, for every interleaving of concurrent calls; a degrade that
\* finds StaticOnly and a try_recover that finds Normal leave it unchanged.
LevelMovesOneStep ==
    /\ [](degradation_level \in Normal..StaticOnly)
    /\ [][/\ degradation_level' # degradation_level =>
                 \/ Returned("degrade")
                        /\ degradation_level' = degradation_level + 1
                 \/ Returned("try_recover")
                        /\ degradation_level' = degradation_level - 1
          /\ (Returned("degrade") /\ a_last'.arg = StaticOnly) =>
                 degradation_level' = degradation_level
          /\ (Returned("try_recover") /\ a_last'.arg = Normal) =>
                 degradation_level' = degradation_level]_vars

\* thread t returns from try_recover in this step
TryRecoverReturns(t) ==
    apc[t] \in {"tr_load", "tr_store"} /\ apc'[t] = "idle"

\* C16: a try_recover lowers the degradation level, by one, only when the
\* adaptive_threshold() of its call is below 3; when that threshold is 3 or
\* more, the default 5 of the empty histogram included, the level is left
\* unchanged.
RecoverOnlyBelowThree ==
    [][\A t \in Threads :
          TryRecoverReturns(t) =>
              /\ degradation_level' # degradation_level =>
                     /\ degradation_level' = degradation_level - 1
                     /\ a_loc[t].threshold < 3
              /\ a_loc[t].threshold >= 3 =>
                     degradation_level' = degradation_level]_vars

\* C16, calls that do not overlap: try_recover lowers the level by one
\* exactly when adaptive_threshold() is below 3 and the level is above Normal
RecoverSequential ==
    [][Returned("try_recover") =>
          IF adaptive_threshold(latency_buckets) < 3
                 /\ degradation_level > Normal
             THEN degradation_level' = degradation_level - 1
             ELSE degradation_level' = degradation_level]_vars

\* the buckets 0..i hold at least 95% of the samples of a histogram
HoldsP95(buckets, i) ==
    100 * cumulative(buckets, i) >= 95 * total_of(buckets)

\* C17: adaptive_threshold() returns 5 when no latency has been recorded, and
\* otherwise the smallest bucket index i such that buckets 0..i hold at least
\* 95% of all recorded samples, for every histogram, totals below 20
\* included.
ThresholdIsP95Bucket ==
    [][Returned("adaptive_threshold") =>
          IF total_of(latency_buckets) = 0
             THEN a_last'.threshold = 5
             ELSE /\ a_last'.threshold \in Buckets
                  /\ HoldsP95(latency_buckets, a_last'.threshold)
                  /\ \A i \in Buckets :
                         i < a_last'.threshold =>
                             ~HoldsP95(latency_buckets, i)]_vars

\* C18: a record_latency(latency_ms) adds one to the bucket of index
\* min(latency_ms, 9) and changes nothing else (no other bucket, not the
\* degradation level, not the breaker fields), and the sum of all buckets is
\* the number of record_latency calls made, also when the calls run
\* concurrently with each other and with the other calls.
RecordLatencyCountsOnce ==
    /\ [](total_of(latency_buckets) = recorded)
    /\ [][recorded' # recorded =>
              /\ a_last'.op = "record_latency"
              /\ latency_buckets' =
                     [i \in Buckets |->
                         IF i = Min(a_last'.arg, 9)
                            THEN latency_buckets[i] + 1
                            ELSE latency_buckets[i]]
              /\ UNCHANGED <<degradation_level, profile, acb_state,
                             acb_failure_count, acb_last_failure_time>>]_vars

\* C18 witness: a latency beyond the last bucket was recorded into bucket 9
\* while another thread was inside a call
RecordedOverflowLatency ==
    /\ a_last.op = "record_latency"
    /\ a_last.arg > 9
    /\ latency_buckets[9] > 0
    /\ \E t \in Threads : apc[t] # "idle"

\* data starts with the bytes of prefix; a shorter input does not
StartsWith(data, prefix) ==
    /\ Len(data) >= Len(prefix)
    /\ \A i \in 1..Len(prefix) : data[i] = prefix[i]

\* data starts with one of the prefixes
StartsWithOneOf(data, prefixes) ==
    \E prefix \in prefixes : StartsWith(data, prefix)

\* the protocol the ordered prefix rules give a payload
ProtocolByPrefix(data) ==
    CASE data = <<>> -> "Unknown"
      [] StartsWith(data, SSH_PREFIX) -> "SSH"
      [] StartsWithOneOf(data, HTTP_PREFIXES) -> "HTTP"
      [] StartsWithOneOf(data, FTP_PREFIXES) -> "FTP"
      [] StartsWithOneOf(data, SMTP_PREFIXES) -> "SMTP"
      [] OTHER -> "Unknown"

\* C19: classify_protocol_fast returns a Protocol for every payload, the one
\* the prefix rules give in their order (empty; "SSH-"; the six 3-byte HTTP
\* prefixes; the four FTP commands; the three SMTP commands; else Unknown),
\* an input shorter than a rule's prefix never matches that rule, and the
\* bytes after the prefix never change the result.
ClassifiedByPrefix ==
    cl_proto # NotClassified =>
        /\ cl_proto \in Protocol
        /\ cl_proto = ProtocolByPrefix(cl_data)
        /\ cl_proto = "HTTP" =>
               \A tl \in Tails(MaxTail) :
                   classify_protocol_fast(Slice(cl_data, 3) \o tl) = "HTTP"
        /\ Len(cl_data) >= 4 =>
               \A tl \in Tails(MaxTail) :
                   classify_protocol_fast(Slice(cl_data, 4) \o tl) = cl_proto
        /\ Len(cl_data) < 3 => cl_proto = "Unknown"
        /\ Len(cl_data) < 4 => cl_proto \in {"HTTP", "Unknown"}

\* C19 witness: a 3-byte HTTP prefix with nothing after it is HTTP
BareMethodIsHttp ==
    /\ cl_proto = "HTTP"
    /\ Len(cl_data) = 3

\* the number of stored timestamps that lie in the last second
InLastSecond ==
    Cardinality({i \in DOMAIN requests :
                    requests[i] # 0 /\ now - requests[i] < 1000})

\* the stored timestamps are evenly spaced: in time order, each is as far
\* from the one before it as the next is
RegularSpacing ==
    LET ts == timestamps(requests)
    IN  \A i \in 2..(Len(ts) - 1) : ts[i] - ts[i - 1] = ts[i + 1] - ts[i]

\* C20: rate_state() is Insane iff rps > 20 or (rps > 10 and burstiness >
\* 0.8), otherwise Bursty iff rps > 5 or burstiness > 0.6, otherwise Normal,
\* for the rps of requests_per_second() and the burstiness of
\* burstiness_score(); a source with at most 5 timestamps in the last second
\* and regular spacing is Normal, and one with more than 20 timestamps in
\* the last second is Insane whatever its burstiness.
RateStateByTable ==
    rs_state # NotAsked =>
        LET rps == requests_per_second(requests, now)
            insane == rps > 20 \/ (rps > 10 /\ burstiness_above(requests, 8))
            bursty == rps > 5 \/ burstiness_above(requests, 6)
        IN  /\ rs_state \in RateState
            /\ rs_state = "Insane" <=> insane
            /\ rs_state = "Bursty" <=> ~insane /\ bursty
            /\ rs_state = "Normal" <=> ~insane /\ ~bursty
            /\ (InLastSecond <= 5 /\ RegularSpacing) => rs_state = "Normal"
            /\ InLastSecond > 20 => rs_state = "Insane"

\* C20 witness: 21 requests within one second, evenly spaced, are Insane
FloodIsInsane ==
    /\ rs_state = "Insane"
    /\ InLastSecond > 20
    /\ RegularSpacing

\* the stored timestamps are those of one record per interval up to now:
\* every slot is filled, the newest timestamp is now, and in time order each
\* is one interval after the one before it
FilledAtInterval ==
    LET ts == timestamps(requests)
    IN  /\ \A i \in DOMAIN requests : requests[i] # 0
        /\ ts[Len(ts)] = now
        /\ \A i \in 1..(Len(ts) - 1) : ts[i + 1] - ts[i] = interval

\* C21: requests_per_second() is the number of slots whose timestamp is
\* strictly greater than now - 1000; for a buffer of W slots filled by
\* records D ms apart, the value v is within 1 of min(W, 1000 / D), that is,
\* v * D is within D of min(W * D, 1000).
RpsCountsLastSecond ==
    rps_last # NoRps =>
        /\ rps_last =
               Cardinality({i \in DOMAIN requests : requests[i] > now - 1000})
        /\ FilledAtInterval =>
               LET v == rps_last * interval
                   m == Min(window_size * interval, 1000)
               IN  v - m <= interval /\ m - v <= interval

\* C21 witness: more than four slots filled 250 ms apart hold four requests
\* of the last second
PacedWindowCounted ==
    /\ FilledAtInterval
    /\ window_size > 4
    /\ interval = 250
    /\ rps_last = 4

\* no record call is running
RingQuiet == \A t \in active : g_pc[t] = "idle"

\* the number of slots that hold a timestamp
NonZeroSlots == Cardinality({i \in DOMAIN requests : requests[i] # 0})

\* the timestamps the record calls have stored
Stored == {g_log[k] : k \in DOMAIN g_log}

\* the last m elements of a sequence
LastOf(s, m) == SubSeq(s, Len(s) - m + 1, Len(s))

\* every slot is 0 or a stored timestamp
SlotsAreStored ==
    \A i \in DOMAIN requests : requests[i] = 0 \/ requests[i] \in Stored

\* after a sequential run the buffer holds the most recent timestamps
SequentialKeepsNewest ==
    (RingQuiet /\ ~g_overlap) =>
        timestamps(requests) = LastOf(g_log, Min(Len(g_log), window_size))

\* what one step of a record call does to the ring
RingStep ==
    /\ write_idx' = write_idx \/ write_idx' = write_idx + 1
    /\ \A t \in active :
           (g_pc[t] = "rec_add" /\ g_pc'[t] = "rec_store") =>
               write_idx' = write_idx + 1
    /\ write_idx' # write_idx =>
           \E t \in active : g_pc[t] = "rec_add" /\ g_pc'[t] = "rec_store"
    /\ requests' # requests =>
           \E t \in active :
               /\ g_pc[t] = "rec_store" /\ g_pc'[t] = "idle"
               /\ \A i \in DOMAIN requests :
                      i # g_old[t] % window_size =>
                          requests'[i] = requests[i]
               /\ requests'[g_old[t] % window_size] = g_now[t]

\* C22: every slot is 0 or a timestamp that a record call stored; each record
\* adds exactly one to write_idx and writes only slot (old write_idx mod W);
\* after n completed record calls, sequential or concurrent, exactly
\* min(n, W) slots are non-zero; after a sequential run the buffer holds the
\* min(n, W) most recent timestamps.
RingInvariant ==
    /\ [](SlotsAreStored)
    /\ [][RingStep]_vars
    /\ [](NonZeroSlots = Min(Len(g_log), window_size))
    /\ [](SequentialKeepsNewest)

\* C22 amended: the same, with the number of non-zero slots stated for the
\* moments at which no record call is running: once n record calls have been
\* made and all of them have returned, exactly min(n, W) slots are non-zero.
RingInvariantWhenQuiet ==
    /\ [](SlotsAreStored)
    /\ [][RingStep]_vars
    /\ [](RingQuiet =>
              /\ write_idx = Len(g_log)
              /\ NonZeroSlots = Min(Len(g_log), window_size))
    /\ [](SequentialKeepsNewest)

\* C22 amended, witness: concurrent record calls have wrapped around a ring that now
\* has every slot filled and no call running
RingWrappedConcurrently ==
    /\ RingQuiet
    /\ g_overlap
    /\ Len(g_log) > window_size
    /\ window_size > 1
    /\ NonZeroSlots = window_size

\* thread t's cleanup_inactive pass runs its retain: it returns, or unwinds
CleanupRuns(t) == tk_pc[t] = "cl_lock" /\ tk_pc'[t] = "idle" /\ ~tk_poisoned

\* some slot t of the buffer has t > 0 and n - t < max_age_ms
HasRecentSlot(reqs, n, max_age_ms) ==
    \E i \in DOMAIN reqs : reqs[i] > 0 /\ n - reqs[i] < max_age_ms

\* C23: cleanup_inactive(max_age_ms) removes exactly the entries in which no
\* slot t has t > 0 and now - t < max_age_ms, for the now it read, and leaves
\* every other entry and every buffer as it was.
CleanupRemovesExactlyStale ==
    [][\A t \in active :
           CleanupRuns(t) =>
               /\ DOMAIN tk_stats' =
                      {ip \in DOMAIN tk_stats :
                          HasRecentSlot(tk_objs[tk_stats[ip]].requests,
                                        tk_now[t], tk_age)}
               /\ \A ip \in DOMAIN tk_stats' : tk_stats'[ip] = tk_stats[ip]
               /\ tk_objs' = tk_objs]_vars

\* C24: once a record(ip) has returned, a get_stats(ip) made less than
\* max_age_ms after the timestamp of that record returns the stats object
\* that the record wrote the timestamp into,
\* for every interleaving of record(ip) with cleanup_inactive on another
\* thread, the first packet of an ip included.
StatsOutliveRecord == tk_ret.due # 0 => tk_ret.obj = tk_ret.due

\* bit b of the unsigned integer n is set
HasBit(n, b) == (n \div (2 ^ b)) % 2 = 1

\* the bits of the tag arguments
TagBits == 0..6

\* C25: after any sequence of add_score and add_tag calls on one
\* Layer0Output, suspicion_score is min(255, sum of the points added) and
\* tags is the bitwise OR of the tags added; no call lowers the score or
\* clears a tag bit.
ScoreAndTagsAccumulate ==
    /\ [](/\ lo_out.suspicion_score = Min(255, lo_sum)
          /\ \A b \in TagBits :
                 HasBit(lo_out.tags, b) <=>
                     \E tag \in lo_added : HasBit(tag, b))
    /\ [][/\ lo_out'.suspicion_score >= lo_out.suspicion_score
          /\ \A b \in TagBits :
                 HasBit(lo_out.tags, b) => HasBit(lo_out'.tags, b)]_vars

\* C25 witness: points adding up to more than 255 have left the score at 255,
\* with two different tags set
ScoreSaturated ==
    /\ lo_sum > 255
    /\ lo_out.suspicion_score = 255
    /\ HasBit(lo_out.tags, 2)
    /\ HasBit(lo_out.tags, 5)

\* the four groups of patterns, by what the patterns are
ScannerNames ==
    {<<"n", "m", "a", "p">>, <<"m", "a", "s", "s", "c", "a", "n">>,
     <<"z", "g", "r", "a", "b">>, <<"s", "h", "o", "d", "a", "n">>,
     <<"c", "e", "n", "s", "y", "s">>}

ExploitMarkers ==
    {<<"m", "e", "t", "a", "s", "p", "l", "o", "i", "t">>,
     <<"m", "s", "f", "c", "o", "n", "s", "o", "l", "e">>,
     <<"e", "x", "p", "l", "o", "i", "t", "/">>,
     <<"p", "a", "y", "l", "o", "a", "d", "/">>,
     <<"\\", "x", "9", "0", "\\", "x", "9", "0", "\\", "x", "9", "0">>}

CredentialSprays ==
    {<<"a", "d", "m", "i", "n", ":", "a", "d", "m", "i", "n">>,
     <<"r", "o", "o", "t", ":", "r", "o", "o", "t">>,
     <<"t", "e", "s", "t", ":", "t", "e", "s", "t">>,
     <<"p", "a", "s", "s", "w", "o", "r", "d", ":", "p", "a", "s", "s", "w", "o", "r", "d">>,
     <<"1", "2", "3", "4", "5", "6">>}

BinaryJunk ==
    {<<"00", "00", "00", "00">>, <<"7f", "E", "L", "F">>,
     <<"A", "A", "A", "A">>, <<"%", "s", "%", "s", "%", "s", "%", "s">>,
     <<".", ".", "/", ".", ".", "/", ".", ".", "/", ".", ".", "/">>}

\* the reply of the group a pattern belongs to
GroupReply(p) ==
    CASE p \in ScannerNames -> "Connection timed out\n"
      [] p \in ExploitMarkers -> "Segmentation fault (core dumped)\n"
      [] p \in CredentialSprays -> "Authentication failed\n"
      [] p \in BinaryJunk -> "Bad request\n"

\* pattern p occurs somewhere in data
Occurs(p, data) == \E e \in 1..Len(data) : ends_at(p, data, e)

\* C26: the pattern list has 20 entries in four groups of five (scanner 0-4,
\* exploit 5-9, spray 10-14, binary junk 15-19); check_hint returns only
\* indices 0..19 (or nothing), the index of a pattern that occurs in the
\* payload; boring_noise_response maps 0-4, 5-9, 10-14 and every other index
\* to the four replies, so the reply for a hint is the reply of the group of
\* the matched pattern.
NoiseGroupsMatchList ==
    /\ Len(patterns) = 20
    /\ \A i \in 0..4 : pattern(i) \in ScannerNames
    /\ \A i \in 5..9 : pattern(i) \in ExploitMarkers
    /\ \A i \in 10..14 : pattern(i) \in CredentialSprays
    /\ \A i \in 15..19 : pattern(i) \in BinaryJunk
    /\ nd_hint # NotChecked =>
           /\ nd_hint = NoHint \/ nd_hint \in 0..19
           /\ nd_hint = NoHint <=>
                  \A i \in 0..19 : ~Occurs(pattern(i), nd_payload)
           /\ nd_hint # NoHint => Occurs(pattern(nd_hint), nd_payload)
    /\ nd_reply # NoReply => nd_reply = GroupReply(pattern(nd_hint))
    /\ nd_idx_reply # NoReply =>
           nd_idx_reply =
               IF nd_idx <= 4 THEN "Connection timed out\n"
               ELSE IF nd_idx <= 9 THEN "Segmentation fault (core dumped)\n"
               ELSE IF nd_idx <= 14 THEN "Authentication failed\n"
               ELSE "Bad request\n"

\* C26 witness: a payload with a spray pattern before a scanner name got the
\* spray reply
SprayBeforeScannerReplied ==
    /\ nd_hint \in 10..14
    /\ nd_reply = "Authentication failed\n"
    /\ \E i \in 0..4 : Occurs(pattern(i), nd_payload)

(***************************************************************************)
(* detect_threats                                                          *)
(***************************************************************************)

\* a detect_threats call has returned to its caller
DetectReturned == d_pc = "idle" /\ d_result # NoResult

\* C27: no call is dropped: a call that check_allow denied has still given
\* its caller an output, one that reports no threat, rather than nothing.
DeniedCallGetsOutput ==
    DetectReturned /\ ~d_result.admitted =>
        d_result.kind = "Dict" /\ ~d_result.threat_detected

\* C28: a call whose payload is longer than the limit and that has failed
\* with the input-too-large error has updated nothing: the breaker's state,
\* failure_count and last_failure_time are what they were when the call
\* began.
OversizeUpdatesNothing ==
    (DetectReturned /\ d_in.len > PayloadLimit
        /\ d_result.kind = "ValueError") => Breaker = d_before

\* the step in which an admitted call whose analysis panicked reports its
\* duration to the breaker
PanicRecorded ==
    d_pc = "record" /\ d_in.analysis = "panic" /\ d_pc' = "return"

\* C29: a panic inside an admitted call is caught: the call returns None or
\* a dict that reports no threat; and the breaker records it as a failure
\* whatever time had elapsed: in Closed failure_count goes up by one, in
\* HalfOpen the breaker is Open again.
PanicCountsAsFailure ==
    /\ [](DetectReturned /\ d_result.admitted /\ d_in.analysis = "panic"
              /\ d_in.len <= PayloadLimit
            => d_result.kind \in {"None", "Dict"}
                   /\ ~d_result.threat_detected)
    /\ [][PanicRecorded =>
              /\ state = "Closed" => failure_count' = failure_count + 1
              /\ state = "HalfOpen" => state' = "Open"]_vars

(***************************************************************************)
(* CircuitBreaker in HalfOpen                                              *)
(***************************************************************************)

\* the breaker is HalfOpen and no record_result call is running: a check_allow
\* call has moved it from Open to HalfOpen and returned true, and
\* record_result has not been called since (a call made in HalfOpen stays at
\* trip_state or reset_state until it changes the state)
AwaitingTestResult ==
    state = "HalfOpen" /\ \A u \in active : pc[u] \notin RecordPcs

\* C30: HalfOpen allows one test request: between the check_allow call that
\* moved the breaker from Open to HalfOpen and the next record_result, no
\* other check_allow call returns true, so the answer of check_allow does
\* not go from false to true in that time.
OneTestRequest == [][AwaitingTestResult => (ret' => ret)]_vars

(***************************************************************************)
(* CircuitBreaker: results recorded in Open                                *)
(***************************************************************************)

\* C31: a result recorded while the breaker is Open never changes the state.
\* A record_result call that loaded Open is, once called, only ever at the
\* store of line 111; the call itself changes no field; and that store sets
\* last_failure_time to the clock and leaves state and failure_count as they
\* are.  A success found in Open therefore changes nothing at all.
OpenResultOnlyRefreshes ==
    /\ [](\A t \in active :
             pc[t] \in RecordPcs /\ st[t] = "Open" => pc[t] = "hf_open")
    /\ [][\A t \in active :
             /\ pc[t] = "idle" /\ pc'[t] \in RecordPcs => Breaker' = Breaker
             /\ pc[t] = "hf_open" /\ pc'[t] = "idle" =>
                   /\ state' = state
                   /\ failure_count' = failure_count
                   /\ last_failure_time' = now]_vars

\* one caller tripped the breaker at the start of the run and, one reset
\* window later, reported a failure that found it Open
FailureRefreshedOpen ==
    /\ state = "Open"
    /\ \A t \in active : pc[t] = "idle"
    /\ failure_count = FAILURE_THRESHOLD
    /\ tripTime = EpochStart
    /\ last_failure_time = EpochStart + RESET_TIMEOUT_MS

(***************************************************************************)
(* detect_threats and the breaker                                          *)
(***************************************************************************)

\* C32: a call that check_allow denied has run no analysis and made no
\* record_result call, and has left the breaker as it found it; an admitted
\* call with a payload within the limit has run one analysis and made
\* exactly one record_result call, with the duration it measured, whether
\* the analysis ended with a threat, with nothing or with a panic.
OneResultPerAdmittedCall ==
    DetectReturned =>
        /\ ~d_result.admitted =>
              d_done = NoneDone /\ Breaker = d_before
        /\ d_result.admitted /\ d_in.len <= PayloadLimit =>
              d_done = [analyses |-> 1, records |-> 1,
                        reported |-> d_duration]

\* an admitted call whose analysis panicked has returned with its one
\* result recorded
PanickedCallRecorded ==
    /\ DetectReturned /\ d_result.admitted
    /\ d_in.analysis = "panic"
    /\ d_done.records = 1

(***************************************************************************)
(* route_payload: order                                                    *)
(***************************************************************************)

\* every bit of tag set a is a bit of tag set b
TagSubset(a, b) == BitAnd(a, b) = a

\* C33: route_payload is monotone in suspicion: for the call made, every
\* call with a score at least as high and a tag set that contains its tag
\* set returns a lane at least as high, in the order FastFake < SlowFake <
\* Mirror.
RouteIsMonotone ==
    routed # NotRouted =>
        \A t \in {x \in TagInputs : TagSubset(r_tags, x)} :
            \A s \in r_score..255 :
                Lane(routed) <= Lane(route_payload(r_proto, s, t))

\* a call was routed to Lane 1 although a higher score and more tags reach
\* Lane 3
RoutedBelowMirror ==
    /\ routed = "FastFake"
    /\ r_score = 19
    /\ r_tags = BitOr(PROBABLE_NOISE, BURSTY)
    /\ route_payload(r_proto, 50, BitOr(r_tags, EXPLOIT_HINT)) = "Mirror"

(***************************************************************************)
(* RateStats: is_automated and rate_state                                  *)
(***************************************************************************)

\* C34: whenever is_automated is true of a RateStats, the rate_state
\* evaluated on the same buffer contents at the same time is Bursty or
\* Insane, never Normal.
AutomatedIsNeverNormal ==
    rs_state # NotAsked /\ is_automated(requests, now) =>
        rs_state \in {"Bursty", "Insane"}

\* rate_state answered Bursty for an automated source
AutomatedRatedBursty ==
    /\ rs_state = "Bursty"
    /\ is_automated(requests, now)

\* C35: requests_per_second never exceeds the window size nor the number of
\* record calls made so far; so a RateStats of at most 20 slots that
\* rate_state calls Insane has no more than 20 requests per second and is
\* Insane by the other rule, more than 10 per second with a burstiness
\* above 0.8.
RpsWithinWindow ==
    LET rps == requests_per_second(requests, now)
    IN  /\ rps <= window_size
        /\ rps <= write_idx
        /\ window_size <= 20 /\ rs_state = "Insane" =>
              rps <= 20 /\ rps > 10 /\ burstiness_above(requests, 8)

\* more than 20 records arrived within one second in a window of 20 slots,
\* and rate_state answered Bursty
FloodInSmallWindow ==
    /\ window_size = 20
    /\ write_idx > 20
    /\ requests_per_second(requests, now) = 20
    /\ rs_state = "Bursty"

(***************************************************************************)
(* ScannerNoiseFilter                                                      *)
(***************************************************************************)

\* C36: the noise filter only grows.  In every state after mark_noise(ip,
\* payload) has returned, is_probable_noise(ip, payload) is true, and the
\* last is_probable_noise call answered so if its arguments had been marked;
\* no step takes a bit out of a filter; a step that is not a mark_noise
\* leaves the filters as they are; and the filter built with HOME and the
\* one built with ENTERPRISE give the same answer.
FilterOnlyGrows ==
    /\ [](/\ \A m \in bf_marked : \A i \in 1..2 :
                is_probable_noise(bf_filters[i], m[1], m[2])
          /\ bf_last # NotProbed =>
                /\ bf_last.answers[1] = bf_last.answers[2]
                /\ <<bf_last.ip, bf_last.payload>> \in bf_marked =>
                      bf_last.answers[1])
    /\ [][/\ \A i \in 1..2 :
                bf_filters[i].bloom \subseteq bf_filters'[i].bloom
          /\ bf_marked' = bf_marked => bf_filters' = bf_filters]_vars

\* three different keys were marked and is_probable_noise has then answered
\* true on both filters for one of them
MarkedStillProbable ==
    /\ bf_calls = 0
    /\ Cardinality(bf_marked) = 3
    /\ bf_last # NotProbed
    /\ <<bf_last.ip, bf_last.payload>> \in bf_marked
    /\ bf_last.answers = <<TRUE, TRUE>>

(***************************************************************************)
(* NoiseDetector: the exploit group                                        *)
(***************************************************************************)

\* C37: whenever the payload contains a pattern of the exploit group
\* (indices 5-9), check_hint returns an index in 5..9, whatever scanner,
\* spray or binary-junk pattern the payload contains as well.
ExploitAlwaysHinted ==
    (nd_hint # NotChecked
        /\ \E i \in 5..9 : Occurs(pattern(i), nd_payload))
      => nd_hint \in 5..9

\* a payload with an exploit pattern that follows a pattern of another group
\* got the index of the other pattern
ExploitHiddenByEarlierPattern ==
    /\ nd_hint \in 0..4
    /\ \E i \in 5..9 : Occurs(pattern(i), nd_payload)

\* a payload whose first pattern is an exploit pattern got an exploit index
\* although a pattern of another group follows
ExploitFirstHinted ==
    /\ nd_hint \in 5..9
    /\ \E i \in 10..19 : Occurs(pattern(i), nd_payload)

(***************************************************************************)
(* VerdictCache: reads do not extend an entry's life                       *)
(***************************************************************************)

\* C38: a get that returns an entry leaves the cache as it is, timestamps
\* and membership; and the get returns an entry only if the clock value it
\* read is less than ttl_ms past the timestamp of the entry's last set, so
\* that a get whose clock value is at or past timestamp + ttl_ms does not
\* return the entry however often it was read before.
ReadsDoNotExtendLife ==
    /\ [][\A t \in Threads :
             GetRuns(t) =>
                LET k == ckey[t] IN
                /\ cret' \notin {None, Panicked} =>
                      /\ cache' = cache
                      /\ k \in DOMAIN cache
                      /\ cret' = cache[k].verdict
                      /\ cnow[t] < cache[k].ts + ttl_ms
                /\ (k \in DOMAIN cache /\ cnow[t] >= cache[k].ts + ttl_ms) =>
                      cret' \in {None, Panicked}]_vars
    /\ [](\A k \in DOMAIN cache :
              /\ cache[k].ts <= now
              /\ k = lastSet.key => cache[k].ts = lastSet.ts)

\* the entry set last was returned by a get, and a later get, whose clock
\* value was ttl_ms or more past the set, returned nothing and removed it
ReadEntryExpired ==
    /\ lastSetRead = "expired"
    /\ cret = None
    /\ lastSet.key \notin DOMAIN cache

(***************************************************************************)
(* ServerStats                                                             *)
(***************************************************************************)

\* C39: every snapshot get_stats returns has total_connections >=
\* active_connections, and total_connections never decreases, in every
\* interleaving of the client tasks and the get_stats tasks.
StatsTotalCoversActive ==
    /\ [](sv_stats # NoSnapshot =>
             sv_stats.total_connections >= sv_stats.active_connections)
    /\ [][total_connections' >= total_connections]_vars

\* total_connections never decreases
TotalNeverDecreases == [][total_connections' >= total_connections]_vars

\* get_stats ran between the two blocks of an add_connection
StatsBetweenPushAndCount ==
    /\ sv_stats # NoSnapshot
    /\ sv_stats.active_connections > sv_stats.total_connections
=============================================================================
